---- MODULE Spec2Model ----
(***************************************************************************)
(* The outbound transaction dispatcher (src/database/sending.rs) and the   *)
(* push-rule evaluator (src/database/pusher.rs) of the home server.        *)
(*                                                                         *)
(* Keys of the two sled trees are byte strings, modelled as sequences of   *)
(* integers 0..255; a tree whose values are always empty is the set of its *)
(* keys.  Time is in seconds.                                              *)
(***************************************************************************)
EXTENDS Integers, Sequences, FiniteSets, Bags, TLC

\* ------------------------------------------------------------------ bounds
\* number of PDUs the append pipeline hands to the senders in one run of TLC
MaxPdu == 3
\* a destination fails at most this many times per worker run
MaxTries == 2
\* the clock advances in steps of TimeStep seconds up to MaxTime
TimeStep == 60
MaxTime == 120
\* process restarts explored
MaxRestarts == 1

\* ------------------------------------------------------- bytes and strings
SEP == <<255>>
PLUS == <<43>>
DOLLAR == <<36>>
\* U+FFFD REPLACEMENT CHARACTER in UTF-8
REPLACEMENT == <<239, 191, 189>>

RECURSIVE Flatten(_)
Flatten(ss) == IF ss = <<>> THEN <<>> ELSE Head(ss) \o Flatten(Tail(ss))

\* String::from_utf8_lossy on the byte strings of the model (ASCII bytes and
\* bytes that start no valid sequence): every invalid byte becomes U+FFFD
from_utf8_lossy(bytes) ==
    Flatten([i \in 1..Len(bytes) |->
                IF bytes[i] < 128 THEN <<bytes[i]>> ELSE REPLACEMENT])

\* utils::string_from_bytes succeeds iff the bytes are UTF-8: ASCII, or the
\* three bytes of U+FFFD (the only multi-byte character of the model)
RECURSIVE Utf8Valid(_)
Utf8Valid(bytes) ==
    IF bytes = <<>> THEN TRUE
    ELSE IF Head(bytes) < 128 THEN Utf8Valid(Tail(bytes))
    ELSE /\ Len(bytes) >= 3
         /\ SubSeq(bytes, 1, 3) = REPLACEMENT
         /\ Utf8Valid(SubSeq(bytes, 4, Len(bytes)))

\* Box::<ServerName>::try_from succeeds: a non-empty host of ASCII letters,
\* digits, '-' and '.'
ServerNameChar(b) ==
    \/ b \in 48..57 \/ b \in 65..90 \/ b \in 97..122 \/ b = 45 \/ b = 46

ServerNameValid(bytes) ==
    /\ bytes # <<>>
    /\ \A i \in 1..Len(bytes) : ServerNameChar(bytes[i])

starts_with(bytes, p) ==
    /\ Len(p) <= Len(bytes)
    /\ SubSeq(bytes, 1, Len(p)) = p

\* byte-wise lexicographic order of sled keys
RECURSIVE KeyLess(_, _)
KeyLess(a, b) ==
    IF b = <<>> THEN FALSE
    ELSE IF a = <<>> THEN TRUE
    ELSE IF Head(a) # Head(b) THEN Head(a) < Head(b)
    ELSE KeyLess(Tail(a), Tail(b))

\* the keys of a tree in iteration order (ascending)
SortedKeys(S) ==
    [i \in 1..Cardinality(S) |->
        CHOOSE k \in S : Cardinality({o \in S : KeyLess(o, k)}) = i - 1]

\* an iterator that is not cut
take_all(seq, n) == seq

\* Iterator::take
take(seq, n) == SubSeq(seq, 1, IF Len(seq) < n THEN Len(seq) ELSE n)

\* slice.splitn(2, |b| b == 0xff): the part before the first 0xff and, when
\* there is a 0xff, the rest after it
FirstSep(key) ==
    IF \E i \in 1..Len(key) : key[i] = 255
    THEN CHOOSE i \in 1..Len(key) :
            key[i] = 255 /\ \A j \in 1..(i - 1) : key[j] # 255
    ELSE 0

splitn2(key) ==
    LET i == FirstSep(key)
    IN  IF i = 0 THEN <<key>>
        ELSE <<SubSeq(key, 1, i - 1), SubSeq(key, i + 1, Len(key))>>

\* ------------------------------------------------------------ destinations
Normal(server) == [tag |-> "Normal", id |-> server]
Appservice(server) == [tag |-> "Appservice", id |-> server]
Push(id) == [tag |-> "Push", id |-> id]

\* the prefix built from an OutgoingKind, with the 0xff pushed after it
PrefixOf(kind) ==
    (CASE kind.tag = "Appservice" -> PLUS \o kind.id
       [] kind.tag = "Push" -> DOLLAR \o kind.id
       [] OTHER -> kind.id) \o SEP

\* federation peers and application services of the model
Servers == {<<97>>}
AppserviceIds == {<<120>>}

\* a PDU-id: room ‖ 0xFF ‖ counter
PduId(n) == <<33, 255, n>>

\* ------------------------------------------------------------------- state
VARIABLES
    servernamepduids,   \* the pending table: set of keys
    servercurrentpdus,  \* the in-flight table: set of keys (markers included)
    futures,            \* outstanding handle_event futures: bag of [kind, pdus]
    last_failed_try,    \* OutgoingKind -> [tries, instant]
    subscriber,         \* undelivered watch_prefix events of the pending table
    now,                \* the clock
    count,              \* PDUs appended so far
    restarts,           \* times the process was restarted
    push_input,         \* arguments of the last send_push_notice call
    push_result,        \* what the call POSTed and returned
    push_pc,            \* "idle" before the first call, then "done"
    fanout,             \* one handle_event(Push): [pc, input, result]
    client,             \* the store as the client routes see it, and the
                        \* response of the last request
    redaction,          \* a PDU under PduEvent::redact:
                        \* [pc, original, reason, before, pdu, ok]
    outbound,           \* outbound requests and the permits of maximum_requests
    senderkey_pusher,   \* the pusher tree: key -> serialized Pusher
    last_set_pusher,    \* history: (user, pushkey) -> the pusher of the last
                        \* set_pusher call, if any
    codec,              \* one conversion of a PDU: [op, ...] with its input
                        \* and what the functions of pdu.rs returned
    delivery,           \* the last handle_event whose requests were answered:
                        \* empty, or one record of what it requested and
                        \* what it returned
    worker              \* where the worker is inside a branch of its loop:
                        \* [pc, kind, keys, i, op], pc = "idle" at the select

pushVars == <<push_input, push_result, push_pc>>

\* what the dispatcher's worker and the senders never touch
pusherVars == <<senderkey_pusher, last_set_pusher>>

otherVars == <<pushVars, fanout, client, redaction, outbound, pusherVars, codec>>

vars == <<servernamepduids, servercurrentpdus, futures, last_failed_try,
          subscriber, now, count, restarts, push_input, push_result, push_pc,
          fanout, client, redaction, outbound, senderkey_pusher,
          last_set_pusher, codec, delivery, worker>>

\* the variables of the outbound dispatcher
sendingVars == <<servernamepduids, servercurrentpdus, futures, last_failed_try,
                 subscriber, now, count, restarts>>

Insert(key) == [insert |-> TRUE, key |-> key]
Remove(key) == [insert |-> FALSE, key |-> key]

Transaction(kind, pdus) == [kind |-> kind, pdus |-> pdus]

\* parse result
Ok(kind, pdu) == [ok |-> TRUE, kind |-> kind, pdu |-> pdu]
Err == [ok |-> FALSE, kind |-> Normal(<<>>), pdu |-> <<>>]

\* ----------------------------------------------------------------- parsing
\* the key parse of the pending-table watcher
parse_servernamepduid(key) ==
    LET parts == splitn2(key)
        ident == parts[1]
    IN  IF ~Utf8Valid(ident) THEN Err
        ELSE IF starts_with(ident, PLUS)
             THEN IF ServerNameValid(Tail(ident)) /\ Len(parts) = 2
                  THEN Ok(Appservice(Tail(ident)), parts[2]) ELSE Err
        ELSE IF starts_with(ident, DOLLAR)
             THEN IF Len(parts) = 2
                  THEN Ok(Push(Tail(ident)), parts[2]) ELSE Err
        ELSE IF ServerNameValid(ident) /\ Len(parts) = 2
             THEN Ok(Normal(ident), parts[2]) ELSE Err

\* the key parse of startup recovery
parse_servercurrentpdus(key) ==
    LET parts == splitn2(key)
        server == parts[1]
    IN  IF Len(parts) < 2 THEN Err
        ELSE IF ~Utf8Valid(server) THEN Err
        ELSE IF starts_with(server, PLUS)
             THEN IF ServerNameValid(server)
                  THEN Ok(Appservice(server), parts[2]) ELSE Err
        ELSE IF starts_with(server, DOLLAR)
             THEN Ok(Push(server), parts[2])
        ELSE IF ServerNameValid(server)
             THEN Ok(Normal(server), parts[2]) ELSE Err

\* ----------------------------------------------------------------- backoff
DAY == 60 * 60 * 24

\* the exponential_backoff closure: TRUE when the request must not be sent
exponential_backoff(last) ==
    LET d == 60 * last.tries * last.tries
        min_elapsed_duration == IF d > DAY THEN DAY ELSE d
    IN  (now - last.instant) < min_elapsed_duration

\* -------------------------------------------------------- startup recovery
\* .take(50) of the recovery scan and of the drain after a success
RECOVERY_BATCH == 50
DRAIN_BATCH == 50

\* the (kind, pdu) pairs startup recovery reads from the in-flight table
RecoveredEntries ==
    LET keys == SortedKeys(servercurrentpdus)
        parsed == [i \in 1..Len(keys) |-> parse_servercurrentpdus(keys[i])]
        kept == SelectSeq(parsed, LAMBDA r : r.ok /\ r.pdu # <<>>)
    IN  take(kept, RECOVERY_BATCH)

\* current_transactions: one transaction per destination, PDUs in scan order
RecoveredTransactions ==
    LET es == RecoveredEntries
        kinds == {es[i].kind : i \in 1..Len(es)}
        pdusOf(k) == LET mine == SelectSeq(es, LAMBDA r : r.kind = k)
                     IN  [i \in 1..Len(mine) |-> mine[i].pdu]
    IN  {Transaction(k, pdusOf(k)) : k \in kinds}

\* ---------------------------------------------------------- push evaluator
\* A rule is [rule_id, enabled, actions, conditions]; an action is "Notify",
\* "DontNotify", "Coalesce" or a tweak; a pusher is [kind, url, format,
\* pushkey] with url TRUE when data.url is set.
IsTweak(a) == a \in {"Highlight(true)", "Highlight(false)", "Sound"}

Rule(id, enabled, actions) ==
    [rule_id |-> id, enabled |-> enabled, actions |-> actions]

\* the server-default ruleset in Ruleset::into_iter order (override, content,
\* room, sender, underride), with the master rule as given
default_pushrules(master) ==
    << master,
       Rule(".m.rule.suppress_notices", TRUE, <<"DontNotify">>),
       Rule(".m.rule.invite_for_me", TRUE, <<"Notify", "Sound", "Highlight(false)">>),
       Rule(".m.rule.member_event", TRUE, <<"DontNotify">>),
       Rule(".m.rule.contains_display_name", TRUE, <<"Notify", "Sound", "Highlight(true)">>),
       Rule(".m.rule.tombstone", TRUE, <<"Notify", "Highlight(true)">>),
       Rule(".m.rule.roomnotif", TRUE, <<"Notify", "Highlight(true)">>),
       Rule(".m.rule.contains_user_name", TRUE, <<"Notify", "Sound", "Highlight(true)">>),
       Rule(".m.rule.call", TRUE, <<"Notify", "Sound", "Highlight(false)">>),
       Rule(".m.rule.encrypted_room_one_to_one", TRUE, <<"Notify", "Sound", "Highlight(false)">>),
       Rule(".m.rule.room_one_to_one", TRUE, <<"Notify", "Sound", "Highlight(false)">>),
       Rule(".m.rule.message", TRUE, <<"Notify", "Highlight(false)">>),
       Rule(".m.rule.encrypted", TRUE, <<"Notify", "Highlight(false)">>) >>

\* the default master rule: disabled
default_master == Rule(".m.rule.master", FALSE, <<"DontNotify">>)

\* serde_json::from_value::<MessageEventContent> / <MemberEventContent> fails
BadContent(pdu) == pdu.content = "bad"

\* the content of an m.room.power_levels event as the roomnotif arm reads it:
\* whether it deserializes, notifications.room, users and users_default
PowerLevels(decodable, notifications_room, users, users_default) ==
    [decodable |-> decodable, notifications_room |-> notifications_room,
     users |-> users, users_default |-> users_default]

\* the power_level_cmp closure
power_level_cmp(pl, sender) ==
    pl.notifications_room <=
        (IF sender \in DOMAIN pl.users THEN pl.users[sender] ELSE 0)

\* room_state_get(room_id, RoomPowerLevels, "").map(deserialize).flatten()
\*     .map_or(false, power_level_cmp);
\* room.power_levels is the event of the current state, if any
sender_may_notify(room, pdu) ==
    \E pl \in room.power_levels : pl.decodable /\ power_level_cmp(pl, pdu.sender)

\* the test of each arm of the match on rule.rule_id; it reads the PDU, the
\* recipient and the room (member count, sender's power to notify the room)
ArmMatches(rule_id, pdu, room) ==
    CASE rule_id = ".m.rule.suppress_notices" ->
            pdu.kind = "m.room.message" /\ pdu.content = "m.notice"
      [] rule_id = ".m.rule.invite_for_me" ->
            /\ pdu.kind = "m.room.member"
            /\ pdu.state_key = "recipient"
            /\ pdu.content = "invite"
      [] rule_id = ".m.rule.member_event" ->
            \* (the rule's default condition, event_match type m.room.member,
            \* holds of every member event)
            pdu.kind = "m.room.member"
      [] rule_id \in {".m.rule.contains_display_name", ".m.rule.contains_user_name"} ->
            /\ pdu.kind = "m.room.message"
            /\ pdu.content = "m.text"
            /\ pdu.body_has_localpart
      [] rule_id = ".m.rule.tombstone" ->
            pdu.kind = "m.room.tombstone" /\ pdu.state_key = ""
      [] rule_id = ".m.rule.roomnotif" ->
            /\ pdu.kind = "m.room.message"
            /\ pdu.content = "m.text"
            /\ pdu.body_has_room
            /\ sender_may_notify(room, pdu)
      [] rule_id = ".m.rule.call" -> pdu.kind = "m.call.invite"
      [] rule_id = ".m.rule.encrypted_room_one_to_one" ->
            room.members = 2 /\ pdu.kind = "m.room.encrypted"
      [] rule_id = ".m.rule.room_one_to_one" ->
            room.members = 2 /\ pdu.kind = "m.room.message"
      [] rule_id = ".m.rule.message" -> pdu.kind = "m.room.message"
      [] rule_id = ".m.rule.encrypted" -> pdu.kind = "m.room.encrypted"
      [] OTHER -> FALSE

\* the arms that deserialize the content with `?` before testing it
ArmFails(rule_id, pdu) ==
    CASE rule_id = ".m.rule.invite_for_me" ->
            /\ pdu.kind = "m.room.member"
            /\ pdu.state_key = "recipient"
            /\ BadContent(pdu)
      [] rule_id = ".m.rule.member_event" ->
            pdu.kind = "m.room.member" /\ BadContent(pdu)
      [] rule_id \in {".m.rule.contains_display_name", ".m.rule.roomnotif",
                      ".m.rule.contains_user_name"} ->
            pdu.kind = "m.room.message" /\ BadContent(pdu)
      [] OTHER -> FALSE

\* the tweaks collected from rule.actions
TweaksOf(rule) == SelectSeq(rule.actions, IsTweak)

\* an Option that is None
None == "None"

\* a Notice whose device data keeps the pusher's url and which is filled from
\* the PDU whatever the format
Notice_unstripped(pusher, tweaks, pdu, room) ==
    [pushkey |-> pusher.pushkey,
     device_data |-> [url |-> pusher.url, format |-> pusher.format],
     device_tweaks |-> tweaks,
     prio |-> IF \/ pdu.kind = "m.room.encrypted"
                 \/ \E i \in 1..Len(tweaks) :
                       tweaks[i] \in {"Highlight(true)", "Sound"}
              THEN "High" ELSE "Low",
     event_id |-> pdu.event_id,
     room_id |-> pdu.room_id,
     counts |-> [unread |-> room.unread, missed_calls |-> 0],
     sender |-> pdu.sender,
     event_type |-> pdu.kind,
     content |-> pdu.content,
     user_is_target |-> pdu.kind = "m.room.member" /\ pdu.state_key = pdu.sender,
     sender_display_name |-> room.sender_display_name,
     room_name |-> room.name]

\* the Notice built for one HTTP pusher that has a url, as send_helper copies
\* it into the Notification; `room` is what the call reads from the database
\* and its unread argument
Notice(pusher, tweaks, pdu, room) ==
    LET event_id_only == pusher.format = "event_id_only"
    IN  [pushkey |-> pusher.pushkey,
         device_data |-> [url |-> FALSE, format |-> pusher.format],
         device_tweaks |-> IF event_id_only THEN <<>> ELSE tweaks,
         prio |-> IF \/ pdu.kind = "m.room.encrypted"
                     \/ \E i \in 1..Len(tweaks) :
                           tweaks[i] \in {"Highlight(true)", "Sound"}
                  THEN "High" ELSE "Low",
         event_id |-> pdu.event_id,
         room_id |-> pdu.room_id,
         counts |-> [unread |-> room.unread, missed_calls |-> 0],
         sender |-> IF event_id_only THEN None ELSE pdu.sender,
         event_type |-> IF event_id_only THEN None ELSE pdu.kind,
         content |-> IF event_id_only THEN None ELSE pdu.content,
         user_is_target |-> /\ ~event_id_only
                            /\ pdu.kind = "m.room.member"
                            /\ pdu.state_key = pdu.sender,
         sender_display_name |->
             IF event_id_only THEN None ELSE room.sender_display_name,
         room_name |-> IF event_id_only THEN None ELSE room.name]

\* send_notice: one POST per HTTP pusher that has a url; Err when a POST fails
send_notice(pushers, tweaks, pdu, room, gateway_ok) ==
    LET http == SelectSeq(pushers, LAMBDA q : q.kind = "http" /\ q.url)
        posts == [i \in 1..Len(http) |-> Notice(http[i], tweaks, pdu, room)]
    IN  [posts |-> posts, ok |-> (posts = <<>> \/ gateway_ok)]

\* a rule the loop passes over with `continue`
Skipped(rule) ==
    \/ \E i \in 1..Len(rule.actions) : rule.actions[i] = "DontNotify"
    \/ ~rule.enabled

\* the loop over the ruleset from rule i on
RECURSIVE send_push_notice_from(_, _, _, _, _, _)
send_push_notice_from(i, ruleset, pushers, pdu, room, gateway_ok) ==
    IF i > Len(ruleset) THEN [posts |-> <<>>, ok |-> TRUE]
    ELSE LET rule == ruleset[i]
             rest == send_push_notice_from(i + 1, ruleset, pushers, pdu, room, gateway_ok)
         IN  IF Skipped(rule) THEN rest
             ELSE IF ArmFails(rule.rule_id, pdu) THEN [posts |-> <<>>, ok |-> FALSE]
             ELSE IF ArmMatches(rule.rule_id, pdu, room)
                  THEN send_notice(pushers, TweaksOf(rule), pdu, room, gateway_ok)
             ELSE rest

send_push_notice(ruleset, pushers, pdu, room, gateway_ok) ==
    send_push_notice_from(1, ruleset, pushers, pdu, room, gateway_ok)

\* ---- the inputs explored
SENDER == "@sender:a"

Pdu(kind, content, state_key, localpart, atroom) ==
    [event_id |-> "$event", room_id |-> "!room:a", sender |-> SENDER,
     kind |-> kind, content |-> content, state_key |-> state_key,
     body_has_localpart |-> localpart, body_has_room |-> atroom,
     body_has_display_name |-> FALSE]

\* a message whose body contains the recipient's display name
NamingRecipient(pdu) == [pdu EXCEPT !.body_has_display_name = TRUE]

Pdus ==
    {Pdu("m.room.message", c, "none", l, r) :
        c \in {"m.text", "m.notice", "bad"}, l \in BOOLEAN, r \in BOOLEAN}
    \cup {NamingRecipient(Pdu("m.room.message", "m.text", "none", l, r)) :
        l \in BOOLEAN, r \in BOOLEAN}
    \cup {Pdu("m.room.member", c, k, FALSE, FALSE) :
        c \in {"invite", "join", "bad"}, k \in {"recipient", "other", SENDER}}
    \cup {Pdu("m.room.tombstone", "other", k, FALSE, FALSE) : k \in {"", "none"}}
    \cup {Pdu(t, "other", "none", FALSE, FALSE) :
        t \in {"m.room.encrypted", "m.call.invite", "m.room.topic"}}

\* what an evaluation reads besides the PDU: the member count of the room,
\* the m.room.power_levels event of its current state (a set with at most
\* one element), the room's name, the sender's display name, and the
\* recipient's unread count
Room(members, power_levels, name, sender_display_name, unread) ==
    [members |-> members, power_levels |-> power_levels,
     name |-> name, sender_display_name |-> sender_display_name,
     unread |-> unread]

\* no power-levels event
NoPowerLevels == {}

\* the sender is listed in users with the level of notifications.room
SenderMayNotify == {PowerLevels(TRUE, 50, SENDER :> 50, 0)}

\* the power levels explored: none, an event that does not deserialize, the
\* sender listed at or below notifications.room, and the sender not listed
\* with users_default at, above or below notifications.room
PowerLevelSamples ==
    {NoPowerLevels, SenderMayNotify,
     {PowerLevels(FALSE, 0, <<>>, 0)},
     {PowerLevels(TRUE, 50, SENDER :> 0, 50)},
     {PowerLevels(TRUE, 50, <<>>, 50)},
     {PowerLevels(TRUE, 50, <<>>, 0)},
     {PowerLevels(TRUE, 0, <<>>, 0)}}

MaxUnread == 1

Rooms ==
    {Room(n, power_levels, name, display, unread) :
        n \in {2, 3}, power_levels \in PowerLevelSamples, name \in {None, "Room"},
        display \in {None, "Sender"}, unread \in {0, MaxUnread}}

Pusher(kind, url, format, pushkey) ==
    [kind |-> kind, url |-> url, format |-> format, pushkey |-> pushkey]

PusherLists ==
    { <<>>,
      <<Pusher("http", TRUE, "event_id_only", "k1")>>,
      <<Pusher("http", TRUE, "full", "k1")>>,
      <<Pusher("http", FALSE, "full", "k1")>>,
      <<Pusher("email", FALSE, "full", "k1")>>,
      <<Pusher("http", TRUE, "full", "k1"), Pusher("http", TRUE, "event_id_only", "k2")>>,
      <<Pusher("email", FALSE, "full", "k1"), Pusher("http", TRUE, "full", "k2")>> }

\* the recipient's master rule: the default one, or enabled through
\* set_pushrule_enabled, with or without the DontNotify action
MasterRules ==
    {Rule(".m.rule.master", e, a) : e \in BOOLEAN, a \in {<<>>, <<"DontNotify">>}}

Rulesets == {default_pushrules(m) : m \in MasterRules}

PushInput(ruleset, pushers, pdu, room, gateway_ok) ==
    [ruleset |-> ruleset, pushers |-> pushers, pdu |-> pdu, room |-> room,
     gateway_ok |-> gateway_ok]

\* ------------------------------------------ handle_event, OutgoingKind::Push
\* a joined member of the PDU's room: the user, the ruleset of their account
\* data (the default one when absent) and what get_pusher returns for them
Member(user, ruleset, pushers) ==
    [user |-> user, ruleset |-> ruleset, pushers |-> pushers]

\* the POST of a Notice to the gateway of a member's pusher
Post(user, notice) == [user |-> user, notice |-> notice]

\* `for pusher in pusher.get_pusher(&user)` from pusher j on: the ruleset is
\* evaluated for the pusher of the iteration; an Err leaves the loops with `?`
RECURSIVE notify_pushers_from(_, _, _, _, _)
notify_pushers_from(j, member, pdu, room, failing) ==
    IF j > Len(member.pushers) THEN [posts |-> <<>>, ok |-> TRUE]
    ELSE LET pusher == member.pushers[j]
             r == send_push_notice(member.ruleset, <<pusher>>, pdu, room,
                                   <<member.user, pusher.pushkey>> \notin failing)
             mine == [i \in 1..Len(r.posts) |-> Post(member.user, r.posts[i])]
         IN  IF ~r.ok THEN [posts |-> mine, ok |-> FALSE]
             ELSE LET rest == notify_pushers_from(j + 1, member, pdu, room, failing)
                  IN  [posts |-> mine \o rest.posts, ok |-> rest.ok]

\* `for user in rooms.room_members(&pdu.room_id)` from member m on
RECURSIVE notify_members_from(_, _, _, _, _)
notify_members_from(m, members, pdu, room, failing) ==
    IF m > Len(members) THEN [posts |-> <<>>, ok |-> TRUE]
    ELSE LET r == notify_pushers_from(1, members[m], pdu, room, failing)
         IN  IF ~r.ok THEN r
             ELSE LET rest == notify_members_from(m + 1, members, pdu, room, failing)
                  IN  [posts |-> r.posts \o rest.posts, ok |-> rest.ok]

\* the Push arm of handle_event for a transaction of one PDU: the POSTs made,
\* in order, and whether the arm returned Ok
handle_event_push(members, pdu, room, failing) ==
    notify_members_from(1, members, pdu, room, failing)

\* ---- the inputs explored
MaxMembers == 2

Users == <<"@alice:a", "@bob:a", "@carol:a", "@dave:a">>

\* PDUs that read the same for every recipient
FanPdus ==
    {pdu \in Pdus : /\ pdu.state_key # "recipient"
                    /\ ~pdu.body_has_localpart
                    /\ ~pdu.body_has_display_name}

FanRulesets ==
    {default_pushrules(default_master),
     default_pushrules(Rule(".m.rule.master", TRUE, <<>>))}

FanPusherLists ==
    { <<>>,
      <<Pusher("http", TRUE, "event_id_only", "k1")>>,
      <<Pusher("http", TRUE, "full", "k1"), Pusher("http", TRUE, "event_id_only", "k2")>>,
      <<Pusher("email", FALSE, "full", "k1"), Pusher("http", TRUE, "full", "k2")>> }

\* the member lists of a room: the first n users, each with a ruleset and
\* their pushers
MemberLists ==
    UNION {{[i \in 1..n |-> Member(Users[i], rs[i], ps[i])] :
               rs \in [1..n -> FanRulesets], ps \in [1..n -> FanPusherLists]} :
           n \in 1..MaxMembers}

\* the POSTs that fail: of the first member's first pusher, of the last
\* member's last pusher, or none
Failings(members) ==
    {{}, {<<members[1].user, "k1">>}, {<<members[Len(members)].user, "k2">>}}

FanInput(members, pdu, room, failing) ==
    [members |-> members, pdu |-> pdu, room |-> room, failing |-> failing]

\* ------------------------------------------------------------ client routes
\* The store as the routes of client_server see it: `pdus` is the timeline
\* (all rooms, in append order), `state` maps (room, type, state key) to the
\* index of the current state event, `displayname` is the profile table,
\* `presence` the presence updates written, `served` counts the requests;
\* `request` and `response` are those of the last request.
SERVER_NAME == "here"

ALICE == "@alice:here"
BOB == "@bob:here"

RoomIds == {"!r1", "!r2"}

Alias(name, server) == [name |-> name, server |-> server]

\* the absent primary alias of a canonical alias content
NoAlias == Alias(None, None)

\* rooms.id_from_alias: the alias directory of this server (None: no entry)
id_from_alias(alias) ==
    CASE alias = Alias("#one", SERVER_NAME) -> "!r1"
      [] alias = Alias("#two", SERVER_NAME) -> "!r2"
      [] alias = Alias("#far", "there") -> "!r1"
      [] OTHER -> None

\* rooms.rooms_joined / rooms.is_joined: the membership index
rooms_joined(user) ==
    IF user = ALICE THEN <<"!r1", "!r2">> ELSE IF user = BOB THEN <<"!r1">> ELSE <<>>

is_joined(user, room) ==
    \E i \in 1..Len(rooms_joined(user)) : rooms_joined(user)[i] = room

\* the peers and application services the append pipeline enqueues a room's
\* PDUs for
RemoteServers(room) == IF room = "!r1" THEN Servers ELSE {}
Appservices(room) == IF room = "!r2" THEN AppserviceIds ELSE {}

StateEvent(room, kind, state_key, content, sender) ==
    [room |-> room, kind |-> kind, state_key |-> state_key,
     content |-> content, sender |-> sender]

StateKey(room, kind, state_key) == <<room, kind, state_key>>

\* rooms.room_state_get: the current state event as a set, empty for None
room_state_get(store, room, kind, state_key) ==
    IF StateKey(room, kind, state_key) \in DOMAIN store.state
    THEN {store.pdus[store.state[StateKey(room, kind, state_key)]]}
    ELSE {}

\* MemberEventContent; `custom` stands for keys of the JSON that the type
\* does not have
MemberContent(membership, displayname, avatar_url, custom) ==
    [membership |-> membership, displayname |-> displayname,
     avatar_url |-> avatar_url, custom |-> custom]

CanonicalAliasContent(alias, alt_aliases) ==
    [alias |-> alias, alt_aliases |-> alt_aliases]

HistoryVisibilityContent(v) == [history_visibility |-> v]

PduBuilder(event_type, content, state_key) ==
    [event_type |-> event_type, content |-> content, state_key |-> state_key]

Response(status) == [status |-> status]

\* steps 7 to 9 of the append pipeline: the PDU is written under the next
\* PDU-id, the current state points to it, and it is enqueued for the room's
\* peers, its application services and for push
appended(store, builder, sender, room) ==
    LET index == Len(store.pdus) + 1
        key == StateKey(room, builder.event_type, builder.state_key)
    IN  [store EXCEPT
            !.pdus = Append(@, StateEvent(room, builder.event_type,
                                          builder.state_key, builder.content, sender)),
            !.state = [k \in DOMAIN @ \cup {key} |-> IF k = key THEN index ELSE @[k]]]

\* the store before the first request: the member events of the joined
\* users, and the history visibility event of !r2 if one is given
InitialStore(visibility) ==
    LET members ==
            << StateEvent("!r1", "m.room.member", ALICE,
                          MemberContent("join", "Alice", "mxc://a", TRUE), ALICE),
               StateEvent("!r2", "m.room.member", ALICE,
                          MemberContent("join", "Alice", None, FALSE), ALICE),
               StateEvent("!r1", "m.room.member", BOB,
                          MemberContent("join", None, None, FALSE), BOB) >>
        pdus == IF visibility = {} THEN members
                ELSE Append(members,
                            StateEvent("!r2", "m.room.history_visibility", "",
                                       CHOOSE content \in visibility : TRUE,
                                       "@carol:there"))
    IN  [pdus |-> pdus,
         state |-> [k \in {StateKey(pdus[i].room, pdus[i].kind, pdus[i].state_key) :
                              i \in 1..Len(pdus)} |->
                       CHOOSE i \in 1..Len(pdus) :
                           StateKey(pdus[i].room, pdus[i].kind, pdus[i].state_key) = k],
         displayname |-> [u \in {ALICE, BOB} |-> IF u = ALICE THEN "Alice" ELSE None],
         presence |-> {},
         fully_read |-> <<>>,
         private_read |-> <<>>,
         read_receipts |-> <<>>,
         served |-> 0,
         request |-> [route |-> None, user |-> None, room_id |-> None,
                      body |-> None],
         response |-> [status |-> None]]

\* a history visibility content that does not deserialize
UndecodableVisibility == [visibility |-> "world_readable"]

\* ------------------------------------------ PduEvent::redact (src/pdu.rs)
\* a JSON map with no entry
EmptyMap == [k \in {} |-> None]

\* serde_json::Value of a PDU's content: an object with its fields, or not
Object(fields) == [is_object |-> TRUE, fields |-> fields]
NotObject == [is_object |-> FALSE, fields |-> EmptyMap]

\* the entries of map whose keys are in keys
Projection(map, keys) == [k \in (DOMAIN map) \cap keys |-> map[k]]

PduEvent(event_id, kind, content, redacts, unsigned) ==
    [event_id |-> event_id, room_id |-> "!room:a", sender |-> SENDER,
     origin_server_ts |-> 1, kind |-> kind, content |-> content,
     state_key |-> None, prev_events |-> <<"$prev">>, depth |-> 2,
     auth_events |-> <<"$create">>, redacts |-> redacts,
     unsigned |-> unsigned, hashes |-> "sha256", signatures |-> "sig"]

\* the whitelist of an event type
allowed(kind) ==
    CASE kind = "m.room.member" -> {"membership"}
      [] kind = "m.room.create" -> {"creator"}
      [] kind = "m.room.join_rules" -> {"join_rule"}
      [] kind = "m.room.power_levels" ->
            {"ban", "events", "events_default", "kick", "redact",
             "state_default", "users", "users_default"}
      [] kind = "m.room.history_visibility" -> {"history_visibility"}
      [] OTHER -> {}

\* serde_json::to_string: the JSON text of a PDU, a string and not an object
to_string(pdu) == [json_text |-> pdu]

\* a redact that serializes the redacted PDU in place of the reason
redact_recording_self(pdu, reason) ==
    LET cleared == [pdu EXCEPT !.unsigned = EmptyMap]
    IN  IF ~pdu.content.is_object
        THEN [pdu |-> cleared, ok |-> FALSE]
        ELSE [pdu |-> [cleared EXCEPT
                        !.unsigned = [k \in {"redacted_because"} |->
                                        to_string(cleared)],
                        !.content = Object(Projection(pdu.content.fields,
                                                      allowed(pdu.kind)))],
              ok |-> TRUE]

\* PduEvent::redact: the PDU as the call leaves it, and whether it returned Ok
redact(pdu, reason) ==
    LET cleared == [pdu EXCEPT !.unsigned = EmptyMap]
    IN  IF ~pdu.content.is_object
        THEN [pdu |-> cleared, ok |-> FALSE]
        ELSE [pdu |-> [cleared EXCEPT
                        !.unsigned = [k \in {"redacted_because"} |->
                                        to_string(reason)],
                        !.content = Object(Projection(pdu.content.fields,
                                                      allowed(pdu.kind)))],
              ok |-> TRUE]

\* the inputs redact is explored on
MaxKeys == 2
RedactKinds == {"m.room.member", "m.room.create", "m.room.join_rules",
                "m.room.power_levels", "m.room.history_visibility",
                "m.room.message"}
ContentKeys == UNION {allowed(kind) : kind \in RedactKinds} \cup {"body"}
ContentValues == {"a", "b"}
Contents ==
    {Object(fields) :
        fields \in UNION {[keys -> ContentValues] :
                            keys \in {K \in SUBSET ContentKeys :
                                        Cardinality(K) <= MaxKeys}}}
    \cup {NotObject}
Reasons == {PduEvent(id, "m.room.redaction", Object(EmptyMap), "$event", EmptyMap) :
                id \in {"$reason1", "$reason2"}}
Unsigneds == {EmptyMap, [k \in {"age"} |-> [number |-> 1]],
              [k \in {"redacted_because"} |->
                    to_string(PduEvent("$reason0", "m.room.redaction",
                                       Object(EmptyMap), "$event", EmptyMap))]}
RedactedPdus == {PduEvent("$event", kind, content, None, unsigned) :
                    kind \in RedactKinds, content \in Contents,
                    unsigned \in Unsigneds}

\* ------------------------------------------ the PDU codec (src/pdu.rs)
\* a JSON object without some of its keys
Without(json, keys) == [k \in DOMAIN json \ keys |-> json[k]]

\* a JSON object with one more key, or with a new value for it
Insert_json(json, key, value) ==
    [k \in DOMAIN json \cup {key} |-> IF k = key THEN value ELSE json[k]]

\* the keys every serialized PduEvent has
RequiredKeys == {"event_id", "room_id", "sender", "origin_server_ts", "type",
                 "content", "prev_events", "depth", "auth_events", "hashes",
                 "signatures"}

\* serde_json::to_value(&PduEvent): kind is renamed, the absent options and
\* an empty unsigned are skipped
to_value(pdu) ==
    [k \in RequiredKeys
           \cup (IF pdu.state_key = None THEN {} ELSE {"state_key"})
           \cup (IF pdu.redacts = None THEN {} ELSE {"redacts"})
           \cup (IF pdu.unsigned = EmptyMap THEN {} ELSE {"unsigned"}) |->
        IF k = "type" THEN pdu.kind ELSE pdu[k]]

\* a deserializer in which unsigned has no default
from_value_unsigned_required(json) ==
    IF ~(RequiredKeys \cup {"unsigned"} \subseteq DOMAIN json)
    THEN [ok |-> FALSE, pdu |-> EmptyMap]
    ELSE [ok |-> TRUE,
          pdu |-> [event_id |-> json["event_id"], room_id |-> json["room_id"],
                   sender |-> json["sender"],
                   origin_server_ts |-> json["origin_server_ts"],
                   kind |-> json["type"], content |-> json["content"],
                   state_key |-> IF "state_key" \in DOMAIN json
                                 THEN json["state_key"] ELSE None,
                   prev_events |-> json["prev_events"], depth |-> json["depth"],
                   auth_events |-> json["auth_events"],
                   redacts |-> IF "redacts" \in DOMAIN json
                               THEN json["redacts"] ELSE None,
                   unsigned |-> json["unsigned"],
                   hashes |-> json["hashes"], signatures |-> json["signatures"]]]

\* serde_json::from_value::<PduEvent>: a missing option is None, a missing
\* unsigned is empty, unknown keys are ignored, a missing field is an error
from_value(json) ==
    IF ~(RequiredKeys \subseteq DOMAIN json)
    THEN [ok |-> FALSE, pdu |-> EmptyMap]
    ELSE [ok |-> TRUE,
          pdu |-> [event_id |-> json["event_id"], room_id |-> json["room_id"],
                   sender |-> json["sender"],
                   origin_server_ts |-> json["origin_server_ts"],
                   kind |-> json["type"], content |-> json["content"],
                   state_key |-> IF "state_key" \in DOMAIN json
                                 THEN json["state_key"] ELSE None,
                   prev_events |-> json["prev_events"], depth |-> json["depth"],
                   auth_events |-> json["auth_events"],
                   redacts |-> IF "redacts" \in DOMAIN json
                               THEN json["redacts"] ELSE None,
                   unsigned |-> IF "unsigned" \in DOMAIN json
                                THEN json["unsigned"] ELSE EmptyMap,
                   hashes |-> json["hashes"], signatures |-> json["signatures"]]]

\* an outgoing event that loses unsigned as a whole
convert_dropping_unsigned(pdu_json) == Without(pdu_json, {"event_id", "unsigned"})

\* PduEvent::convert_to_outgoing_federation_event
convert_to_outgoing_federation_event(pdu_json) ==
    Without(IF "unsigned" \in DOMAIN pdu_json
            THEN [pdu_json EXCEPT !["unsigned"] = Without(@, {"transaction_id"})]
            ELSE pdu_json,
            {"event_id"})

\* PduEvent::from_id_val
from_id_val(event_id, json) == from_value(Insert_json(json, "event_id", event_id))

\* the keys ruma's redaction keeps at the top level of an event
ALLOWED_KEYS == {"event_id", "type", "room_id", "sender", "state_key",
                 "content", "hashes", "signatures", "depth", "prev_events",
                 "prev_state", "auth_events", "origin", "origin_server_ts",
                 "membership"}
REFERENCE_HASH_FIELDS_TO_REMOVE == {"age_ts", "signatures", "unsigned"}

\* ruma::signatures::reference_hash: the digest (taken as injective) of the
\* redacted event without age_ts, signatures and unsigned
reference_hash(value) ==
    LET redacted == [k \in DOMAIN value \cap ALLOWED_KEYS |->
                        IF k = "content"
                        THEN Object(Projection(value[k].fields,
                                               allowed(value["type"])))
                        ELSE value[k]]
    IN  [sha256 |-> Without(redacted, REFERENCE_HASH_FIELDS_TO_REMOVE)]

\* format!("${}", hash)
EventId_of(hash) == [dollar |-> hash]

\* Raw::json().get() parsed by serde_json::from_str
from_str(raw) == raw.json_text

\* process_incoming_pdu: the event id and the JSON with the id inserted
process_incoming_pdu(pdu) ==
    LET value == from_str(pdu)
        event_id == EventId_of(reference_hash(value))
    IN  [event_id |-> event_id, value |-> Insert_json(value, "event_id", event_id)]

\* the PDUs the codec is explored on
CodecUnsigneds ==
    {EmptyMap,
     [k \in {"transaction_id"} |-> [string |-> "txn"]],
     [k \in {"age"} |-> [number |-> 1]],
     [k \in {"age", "transaction_id"} |->
        IF k = "age" THEN [number |-> 1] ELSE [string |-> "txn"]]}
CodecPdus ==
    {[PduEvent("$event", shape[1], shape[2], redacts, unsigned)
         EXCEPT !.state_key = state_key] :
        shape \in {<<"m.room.message", Object([k \in {"body"} |-> "a"])>>,
                   <<"m.room.member",
                     Object([k \in {"membership", "displayname"} |-> "a"])>>},
        redacts \in {None, "$target"},
        unsigned \in CodecUnsigneds,
        state_key \in {None, "", "@sender:a"}}

\* the event id of another event
OtherEventId == EventId_of(reference_hash(EmptyMap))

\* the PDUs a peer sends: in the format without event_id, or carrying one
IncomingPdus ==
    {to_string(IF with_id
               THEN Insert_json(body, "event_id", OtherEventId)
               ELSE body) :
        with_id \in BOOLEAN,
        body \in {IF origin
                  THEN Insert_json(Without(to_value(pdu), {"event_id"}), "origin", "a")
                  ELSE Without(to_value(pdu), {"event_id"}) :
                    origin \in BOOLEAN, pdu \in CodecPdus}}

\* ---------------------------------- the pusher store (src/database/pusher.rs)
\* str::as_bytes of the user ids and pushkeys of the store
as_bytes(s) ==
    CASE s = "@a:h1" -> <<64, 97, 58, 104, 49>>
      [] s = "@ab:h1" -> <<64, 97, 98, 58, 104, 49>>
      [] s = "@a:h" -> <<64, 97, 58, 104>>
      [] s = "k" -> <<107>>
      [] s = "k1" -> <<107, 49>>
      [] s = "k2" -> <<107, 50>>

\* a key made of the user id alone
sender_key(sender, pushkey) == as_bytes(sender)

\* key: the bytes of the user id followed by those of the pushkey
pusher_key(sender, pushkey) == as_bytes(sender) \o as_bytes(pushkey)

\* serde_json::to_string(&pusher): absent options are left out
pusher_to_string(pusher) ==
    [pushkey |-> pusher.pushkey, kind |-> pusher.kind,
     data |-> [k \in (IF pusher.url THEN {"url"} ELSE {}) \cup
                     (IF pusher.format = "full" THEN {} ELSE {"format"}) |->
                  IF k = "url" THEN "https://gateway" ELSE pusher.format]]

\* serde_json::from_slice::<Pusher>
pusher_from_slice(json) ==
    Pusher(json.kind, "url" \in DOMAIN json.data,
           IF "format" \in DOMAIN json.data THEN json.data["format"] ELSE "full",
           json.pushkey)

\* PushData::set_pusher: the tree after the call
set_pusher(tree, sender, pusher) ==
    LET key == pusher_key(sender, pusher.pushkey)
    IN  IF pusher.kind = None
        THEN [k \in DOMAIN tree \ {key} |-> tree[k]]
        ELSE [k \in DOMAIN tree \cup {key} |->
                IF k = key THEN pusher_to_string(pusher) ELSE tree[k]]

\* PushData::get_pusher: the values under the prefix, in key order
get_pusher(tree, sender) ==
    LET keys == SortedKeys({k \in DOMAIN tree : starts_with(k, as_bytes(sender))})
    IN  [i \in 1..Len(keys) |-> pusher_from_slice(tree[keys[i]])]

\* the local users (the server is h1) and the pushers of the requests
PusherUsers == {"@a:h1", "@ab:h1"}
\* the users handle_event calls get_pusher with: the members of a room, those
\* of other servers included
PusherMembers == PusherUsers \cup {"@a:h"}
Pushkeys == {"k", "k1", "k2"}
SetPusherRequests ==
    {Pusher(shape[1], shape[2], shape[3], pushkey) :
        shape \in {<<None, FALSE, "full">>, <<"http", TRUE, "event_id_only">>,
                   <<"http", TRUE, "full">>, <<"email", FALSE, "full">>},
        pushkey \in Pushkeys}

\* the worker at the select of its loop
WorkerIdle == [pc |-> "idle", kind |-> Normal(<<>>), keys |-> <<>>, i |-> 0, op |-> 0]

\* the tasks that call send_federation_request or send_appservice_request
Callers == {[task |-> 1, via |-> "send_federation_request"],
            [task |-> 2, via |-> "send_federation_request"],
            [task |-> 3, via |-> "send_appservice_request"]}

\* the state of everything but the dispatcher and the client store
InitExceptSending ==
    /\ push_input = PushInput(<<>>, <<>>,
                              Pdu("m.room.topic", "other", "none", FALSE, FALSE),
                              Room(2, NoPowerLevels, None, None, 0), TRUE)
    /\ push_result = [posts |-> <<>>, ok |-> TRUE]
    /\ push_pc = "idle"
    /\ fanout = [pc |-> "idle",
                 input |-> FanInput(<<>>, Pdu("m.room.topic", "other", "none", FALSE, FALSE),
                                    Room(2, NoPowerLevels, None, None, 0), {}),
                 result |-> [posts |-> <<>>, ok |-> TRUE]]
    /\ redaction = [pc |-> "idle",
                    original |-> PduEvent("$event", "m.room.message",
                                          Object(EmptyMap), None, EmptyMap),
                    reason |-> PduEvent("$reason1", "m.room.redaction",
                                        Object(EmptyMap), "$event", EmptyMap),
                    before |-> PduEvent("$event", "m.room.message",
                                        Object(EmptyMap), None, EmptyMap),
                    pdu |-> PduEvent("$event", "m.room.message",
                                     Object(EmptyMap), None, EmptyMap),
                    ok |-> TRUE]
    /\ outbound = [tasks |-> [t \in Callers |-> "idle"], transactions |-> {}]
    /\ senderkey_pusher = <<>>
    /\ last_set_pusher = [user \in PusherUsers, pushkey \in Pushkeys |-> {}]
    /\ codec = [op |-> "idle"]
    /\ delivery = {}
    /\ worker = WorkerIdle

InitExceptClient ==
    /\ servernamepduids = {}
    /\ servercurrentpdus = {}
    /\ futures = EmptyBag
    /\ last_failed_try = <<>>
    /\ subscriber = <<>>
    /\ now = 0
    /\ count = 0
    /\ restarts = 0
    /\ InitExceptSending

Init == InitExceptClient /\ client = InitialStore({})

\* the stores the client routes are explored from
ClientInit ==
    /\ InitExceptClient
    /\ \E visibility \in {{}, {UndecodableVisibility}} :
          client = InitialStore(visibility)

\* the process stops and starts again: the trees persist, the worker's
\* memory (futures, last_failed_try, the subscription, its position) is new
start_handler ==
    /\ restarts < MaxRestarts
    /\ restarts' = restarts + 1
    /\ futures' = SetToBag(RecoveredTransactions)
    /\ last_failed_try' = <<>>
    /\ subscriber' = <<>>
    /\ worker' = WorkerIdle
    /\ UNCHANGED <<servernamepduids, servercurrentpdus, now, count>>
    /\ UNCHANGED <<otherVars, delivery>>

\* ----------------------------------------------------------------- senders
\* all three insert one key into the pending table; the watcher is notified
Enqueue(key) ==
    /\ count < MaxPdu
    /\ count' = count + 1
    /\ servernamepduids' = servernamepduids \cup {key}
    /\ subscriber' = Append(subscriber, Insert(key))
    /\ UNCHANGED <<servercurrentpdus, futures, last_failed_try, now, restarts>>
    /\ UNCHANGED <<otherVars, delivery, worker>>

send_push_pdu_key(pdu_id) == DOLLAR \o from_utf8_lossy(pdu_id) \o SEP \o pdu_id
send_pdu_key(server, pdu_id) == server \o SEP \o pdu_id
send_pdu_appservice_key(appservice_id, pdu_id) ==
    PLUS \o appservice_id \o SEP \o pdu_id

send_push_pdu == Enqueue(send_push_pdu_key(PduId(count + 1)))

send_pdu == \E server \in Servers : Enqueue(send_pdu_key(server, PduId(count + 1)))

send_pdu_appservice ==
    \E id \in AppserviceIds : Enqueue(send_pdu_appservice_key(id, PduId(count + 1)))

\* ------------------------------------------------- transaction completion
HasTransaction(f) == BagIn(f, futures)

\* in-flight keys of a prefix other than the reservation marker
EntriesOf(prefix) ==
    {k \in servercurrentpdus : starts_with(k, prefix) /\ Len(prefix) # Len(k)}

\* new_pdus: the first pending keys of the prefix, in key order
NewKeys(prefix) ==
    take(SortedKeys({k \in servernamepduids : starts_with(k, prefix)}), DRAIN_BATCH)

\* futures.next() yields Ok(outgoing_kind)
Success(f) ==
    LET prefix == PrefixOf(f.kind)
        kept == servercurrentpdus \ EntriesOf(prefix)
    IN  \E new_keys \in {NewKeys(prefix)} :
        LET new_pdus == [i \in 1..Len(new_keys) |->
                            SubSeq(new_keys[i], Len(prefix) + 1, Len(new_keys[i]))]
        IN
        /\ HasTransaction(f)
        /\ IF new_pdus # <<>>
           THEN /\ servercurrentpdus' =
                       kept \cup {prefix \o new_pdus[i] : i \in 1..Len(new_pdus)}
                /\ servernamepduids' =
                       servernamepduids \ {prefix \o new_pdus[i] : i \in 1..Len(new_pdus)}
                /\ subscriber' = subscriber \o
                       [i \in 1..Len(new_pdus) |-> Remove(prefix \o new_pdus[i])]
                /\ futures' = (futures (-) SetToBag({f}))
                                (+) SetToBag({Transaction(f.kind, new_pdus)})
           ELSE /\ servercurrentpdus' = kept \ {prefix}
                /\ futures' = futures (-) SetToBag({f})
                /\ UNCHANGED <<servernamepduids, subscriber>>
        /\ UNCHANGED <<last_failed_try, now, count, restarts>>
        /\ UNCHANGED otherVars

Tries(kind) ==
    IF kind \in DOMAIN last_failed_try THEN last_failed_try[kind].tries ELSE 0

\* the None arm of the match on last_failed_try.get: the first failure
FirstFailedTry == [tries |-> 1, instant |-> now]

\* an entry that counts every failure as the first one
first_try_again(kind) == [tries |-> 1, instant |-> now]

\* the entry the failure branch inserts into last_failed_try
FailedTry(kind) ==
    IF kind \in DOMAIN last_failed_try
    THEN [tries |-> last_failed_try[kind].tries + 1, instant |-> now]
    ELSE FirstFailedTry

\* a failure branch that deletes the in-flight keys of the prefix as the
\* success branch does, marker included
remove_reservation_and_entries(prefix) ==
    {k \in servercurrentpdus : ~starts_with(k, prefix)}

\* servercurrentpdus.remove(&prefix) of the failure branch
remove_reservation(prefix) == servercurrentpdus \ {prefix}

\* futures.next() yields Err((outgoing_kind, e))
Failure(f) ==
    LET prefix == PrefixOf(f.kind)
    IN  /\ HasTransaction(f)
        /\ Tries(f.kind) < MaxTries
        /\ last_failed_try' =
              [k \in DOMAIN last_failed_try \cup {f.kind} |->
                  IF k = f.kind THEN FailedTry(f.kind) ELSE last_failed_try[k]]
        /\ servercurrentpdus' = remove_reservation(prefix)
        /\ futures' = futures (-) SetToBag({f})
        /\ UNCHANGED <<servernamepduids, subscriber, now, count, restarts>>
        /\ UNCHANGED otherVars

Completion ==
    /\ \E f \in BagToSet(futures) : Success(f) \/ Failure(f)
    /\ UNCHANGED <<delivery, worker>>

\* ---------------------------------------------------- pending-table watch
\* a filter that never finds a destination in backoff
never_in_backoff(kind) == FALSE

\* the .filter of the wakeup: not in backoff, and the reservation succeeds
InBackoff(kind) ==
    /\ kind \in DOMAIN last_failed_try
    /\ exponential_backoff(last_failed_try[kind])

\* compare_and_swap(prefix, None, Some([])) returns Ok(Ok(()))
compare_and_swap_reserves(prefix) == prefix \notin servercurrentpdus

Wakeup ==
    /\ subscriber # <<>>
    /\ LET event == Head(subscriber)
           key == event.key
           parsed == parse_servernamepduid(key)
       IN  IF event.insert /\ parsed.ok /\ ~InBackoff(parsed.kind)
           THEN IF compare_and_swap_reserves(PrefixOf(parsed.kind))
                THEN /\ servercurrentpdus' =
                           servercurrentpdus \cup {PrefixOf(parsed.kind), key}
                     /\ servernamepduids' = servernamepduids \ {key}
                     /\ subscriber' = Append(Tail(subscriber), Remove(key))
                     /\ futures' = futures (+)
                           SetToBag({Transaction(parsed.kind, <<parsed.pdu>>)})
                ELSE /\ subscriber' = Tail(subscriber)
                     /\ UNCHANGED <<servercurrentpdus, servernamepduids, futures>>
           ELSE /\ subscriber' = Tail(subscriber)
                /\ UNCHANGED <<servercurrentpdus, servernamepduids, futures>>
    /\ UNCHANGED <<last_failed_try, now, count, restarts>>
    /\ UNCHANGED <<otherVars, delivery, worker>>

\* ------------------------------------------------------------------- clock
\* (time is read only as the time elapsed since a recorded failure, so the
\* clock is advanced only while some destination is in backoff)
Tick ==
    /\ \E kind \in DOMAIN last_failed_try : InBackoff(kind)
    /\ now + TimeStep <= MaxTime
    /\ now' = now + TimeStep
    /\ UNCHANGED <<servernamepduids, servercurrentpdus, futures,
                   last_failed_try, subscriber, count, restarts>>
    /\ UNCHANGED <<otherVars, delivery, worker>>

Next ==
    \/ send_pdu
    \/ send_pdu_appservice
    \/ send_push_pdu
    \/ Wakeup
    \/ Completion
    \/ start_handler
    \/ Tick

Spec == Init /\ [][Next]_vars

\* one evaluation of the push rules for a PDU and a recipient
EvaluatePush ==
    /\ push_pc = "idle"
    /\ \E ruleset \in Rulesets, pushers \in PusherLists, pdu \in Pdus,
          room \in Rooms, gateway_ok \in BOOLEAN :
          /\ push_input' = PushInput(ruleset, pushers, pdu, room, gateway_ok)
          /\ push_result' = send_push_notice(ruleset, pushers, pdu, room, gateway_ok)
    /\ push_pc' = "done"
    /\ UNCHANGED <<sendingVars, fanout, client, redaction, outbound, pusherVars, codec, delivery, worker>>

PushSpec == Init /\ [][EvaluatePush]_vars

\* one Push transaction: handle_event(OutgoingKind::Push(id), [pdu_id])
handle_event_Push ==
    /\ fanout.pc = "idle"
    /\ \E members \in MemberLists, pdu \in FanPdus :
          \E failing \in Failings(members),
             power_levels \in {NoPowerLevels, SenderMayNotify} :
             LET room == Room(Len(members), power_levels, "Room", "Sender", 1)
             IN  fanout' = [pc |-> "done",
                            input |-> FanInput(members, pdu, room, failing),
                            result |-> handle_event_push(members, pdu, room, failing)]
    /\ UNCHANGED <<sendingVars, pushVars, client, redaction, outbound, pusherVars, codec, delivery, worker>>

FanoutSpec == Init /\ [][handle_event_Push]_vars

\* ------------------------------------------------- client_server/state.rs
MaxRequests == 2

outbound_keys(room, index) ==
    {send_pdu_key(server, PduId(index)) : server \in RemoteServers(room)}
    \cup {send_pdu_appservice_key(id, PduId(index)) : id \in Appservices(room)}
    \cup {send_push_pdu_key(PduId(index))}

\* rooms.build_and_append_pdu: `accepted` is the verdict of steps 1 to 6 of
\* the pipeline; a rejected PDU is not written
build_and_append_pdu(store, builder, sender, room, accepted) ==
    IF accepted /\ is_joined(sender, room)
    THEN [ok |-> TRUE, store |-> appended(store, builder, sender, room),
          enqueued |-> SortedKeys(outbound_keys(room, Len(store.pdus) + 1))]
    ELSE [ok |-> FALSE, store |-> store, enqueued |-> <<>>]

\* a gate that looks at the primary alias only
primary_alias(content) ==
    IF content.alias = NoAlias THEN <<>> ELSE <<content.alias>>

\* the aliases the gate checks: alt_aliases, then the primary alias
listed_aliases(content) ==
    content.alt_aliases \o (IF content.alias = NoAlias THEN <<>> ELSE <<content.alias>>)

\* the test of the gate's loop for one alias
alias_refused(alias, room_id) ==
    \/ alias.server # SERVER_NAME
    \/ id_from_alias(alias) # room_id

\* send_state_event_for_key_helper
send_state_event_for_key_helper(store, sender, event_type, content, room_id, state_key, accepted) ==
    IF /\ event_type = "m.room.canonical_alias"
       /\ \E i \in 1..Len(listed_aliases(content)) :
             alias_refused(listed_aliases(content)[i], room_id)
    THEN [ok |-> FALSE, store |-> store, enqueued |-> <<>>]
    ELSE build_and_append_pdu(store, PduBuilder(event_type, content, state_key),
                              sender, room_id, accepted)

\* ---- the requests explored
AliasSamples ==
    {Alias("#one", SERVER_NAME), Alias("#two", SERVER_NAME),
     Alias("#far", "there"), Alias("#none", SERVER_NAME)}

StateContents ==
    {[event_type |-> "m.room.canonical_alias",
      content |-> CanonicalAliasContent(alias, alts)] :
        alias \in {NoAlias, Alias("#one", SERVER_NAME), Alias("#two", SERVER_NAME)},
        alts \in {<<>>} \cup {<<a>> : a \in AliasSamples}}
    \cup {[event_type |-> "m.room.history_visibility",
           content |-> HistoryVisibilityContent(v)] :
            v \in {"world_readable", "shared"}}

Request(route, user, room_id, body) ==
    [route |-> route, user |-> user, room_id |-> room_id, body |-> body]

\* what a request leaves behind
Served(store, request, status) ==
    [store EXCEPT !.served = @ + 1, !.request = request,
                  !.response = Response(status)]

\* send_state_event_for_key_route (state key "" as
\* send_state_event_for_empty_key_route passes it)
send_state_event_for_key_route ==
    /\ client.served < MaxRequests
    /\ \E room_id \in RoomIds, body \in StateContents, accepted \in BOOLEAN :
          LET r == send_state_event_for_key_helper(
                       client, ALICE, body.event_type, body.content, room_id, "",
                       accepted)
              request == Request("send_state_event_for_key", ALICE, room_id, body)
          IN  /\ client' = Served(r.store, request,
                                  IF r.ok THEN "Ok" ELSE "Forbidden")
              /\ servernamepduids' =
                    servernamepduids \cup {r.enqueued[i] : i \in 1..Len(r.enqueued)}
              /\ subscriber' = subscriber \o
                    [i \in 1..Len(r.enqueued) |-> Insert(r.enqueued[i])]
    /\ UNCHANGED <<servercurrentpdus, futures, last_failed_try, now, count,
                   restarts, pushVars, fanout, redaction, outbound, pusherVars, codec, delivery, worker>>

\* a check that lets non-members in whenever the room has a visibility event
has_history_visibility(store, room_id) ==
    room_state_get(store, room_id, "m.room.history_visibility", "") # {}

\* matches!(.., Some(Ok(HistoryVisibility::WorldReadable)))
world_readable(store, room_id) ==
    \E event \in room_state_get(store, room_id, "m.room.history_visibility", "") :
        /\ "history_visibility" \in DOMAIN event.content
        /\ event.content.history_visibility = "world_readable"

\* the three get routes: Forbidden, NotFound, or the state asked for
get_state(store, route, user, room_id, event_type) ==
    IF ~is_joined(user, room_id) /\ ~world_readable(store, room_id)
    THEN Response("Forbidden")
    ELSE IF route = "get_state_events"
    THEN [status |-> "Ok",
          room_state |-> {store.pdus[store.state[k]] :
                             k \in {k \in DOMAIN store.state : k[1] = room_id}}]
    ELSE LET event == room_state_get(store, room_id, event_type, "")
         IN  IF event = {} THEN Response("NotFound")
             ELSE [status |-> "Ok", content |-> (CHOOSE e \in event : TRUE).content]

GetRoutes ==
    {"get_state_events", "get_state_events_for_key",
     "get_state_events_for_empty_key"}

\* get_state_events_route, get_state_events_for_key_route (state key "") and
\* get_state_events_for_empty_key_route
get_state_events_routes ==
    /\ client.served < MaxRequests
    /\ \E route \in GetRoutes, user \in {ALICE, BOB},
          event_type \in {"m.room.history_visibility", "m.room.topic"} :
          LET room_id == "!r2"
              request == Request(route, user, room_id,
                                 IF route = "get_state_events" THEN None
                                 ELSE event_type)
          IN  client' = [client EXCEPT
                            !.served = @ + 1, !.request = request,
                            !.response = get_state(client, route, user, room_id,
                                                   event_type)]
    /\ UNCHANGED <<sendingVars, pushVars, fanout, redaction, outbound, pusherVars, codec, delivery, worker>>

\* ----------------------------------------------- client_server/profile.rs
\* the loop over rooms_joined(&sender_user) from room i on: the user's member
\* event is read and rebuilt with the new displayname, appended, and the
\* presence updated; an Err leaves the route with `?`. `failing` are the
\* rooms in which the append pipeline rejects the PDU.
RECURSIVE update_member_events_from(_, _, _, _, _)
update_member_events_from(i, store, user, displayname, failing) ==
    IF i > Len(rooms_joined(user))
    THEN [ok |-> TRUE, store |-> store, enqueued |-> <<>>]
    ELSE LET room_id == rooms_joined(user)[i]
             member == room_state_get(store, room_id, "m.room.member", user)
         IN  IF \/ member = {}
                \/ \E m \in member : "membership" \notin DOMAIN m.content
             THEN [ok |-> FALSE, store |-> store, enqueued |-> <<>>]
             ELSE LET old == (CHOOSE m \in member : TRUE).content
                      content == MemberContent(old.membership, displayname,
                                               old.avatar_url, FALSE)
                      r == build_and_append_pdu(
                               store, PduBuilder("m.room.member", content, user),
                               user, room_id, room_id \notin failing)
                  IN  IF ~r.ok THEN [ok |-> FALSE, store |-> store, enqueued |-> <<>>]
                      ELSE LET updated ==
                                   [r.store EXCEPT !.presence = @ \cup
                                       {[user |-> user, room_id |-> room_id,
                                         displayname |-> r.store.displayname[user],
                                         presence |-> "online"]}]
                               rest == update_member_events_from(
                                           i + 1, updated, user, displayname, failing)
                           IN  [ok |-> rest.ok, store |-> rest.store,
                                enqueued |-> r.enqueued \o rest.enqueued]

\* users.set_displayname
set_displayname(store, user, displayname) ==
    [store EXCEPT !.displayname[user] = displayname]

set_displayname_route ==
    /\ client.served < MaxRequests
    /\ \E user \in {ALICE, BOB}, displayname \in {"Ally"}, failing \in SUBSET RoomIds :
          LET r == update_member_events_from(
                       1, set_displayname(client, user, displayname), user,
                       displayname, failing)
              request == Request("set_displayname", user, None, displayname)
          IN  /\ client' = Served(r.store, request, IF r.ok THEN "Ok" ELSE "Error")
              /\ servernamepduids' =
                    servernamepduids \cup {r.enqueued[k] : k \in 1..Len(r.enqueued)}
              /\ subscriber' = subscriber \o
                    [k \in 1..Len(r.enqueued) |-> Insert(r.enqueued[k])]
    /\ UNCHANGED <<servercurrentpdus, futures, last_failed_try, now, count,
                   restarts, pushVars, fanout, redaction, outbound, pusherVars, codec, delivery, worker>>

ClientNext ==
    \/ send_state_event_for_key_route
    \/ get_state_events_routes
    \/ set_displayname_route

ClientSpec == ClientInit /\ [][ClientNext]_vars

\* ----------------------- read markers (src/client_server/read_marker.rs)
\* the event ids of the PDUs of the store, by append index, and one of no PDU
StoredEventIds == <<"$1", "$2", "$3", "$4">>
UnknownEventId == "$9"

\* rooms.get_pdu_count(event_id): Some(append index) as {index}, None as {}
get_pdu_count(store, event_id) ==
    {i \in 1..Len(store.pdus) : StoredEventIds[i] = event_id}

\* a tree with the value written under the key (user, room)
Written(tree, user, room_id, value) ==
    [k \in DOMAIN tree \cup {<<user, room_id>>} |->
        IF k = <<user, room_id>> THEN value ELSE tree[k]]

\* account_data.update(Some(room_id), user, EventType::FullyRead, event)
account_data_update(store, room_id, user, event_id) ==
    [store EXCEPT !.fully_read = Written(@, user, room_id, event_id)]

\* rooms.edus.private_read_set(room_id, user, count)
private_read_set(store, room_id, user, pdu_count) ==
    [store EXCEPT !.private_read = Written(@, user, room_id, pdu_count)]

\* rooms.edus.readreceipt_update(user, room_id, receipt of event_id)
readreceipt_update(store, user, room_id, event_id) ==
    [store EXCEPT !.read_receipts = Written(@, user, room_id, event_id)]

\* set_read_marker_route: the store it leaves and its answer
set_read_marker(store, user, room_id, body) ==
    LET fully_read == account_data_update(store, room_id, user, body.fully_read)
    IN  IF body.read_receipt = None
        THEN [store |-> fully_read, status |-> "Ok"]
        ELSE LET pdu_count == get_pdu_count(fully_read, body.read_receipt)
             IN  IF pdu_count = {}
                 THEN [store |-> fully_read, status |-> "InvalidParam"]
                 ELSE [store |->
                          readreceipt_update(
                              private_read_set(fully_read, room_id, user,
                                               CHOOSE c \in pdu_count : TRUE),
                              user, room_id, body.read_receipt),
                       status |-> "Ok"]

ReadMarkerBodies ==
    {[fully_read |-> fully_read, read_receipt |-> read_receipt] :
        fully_read \in {"$1", "$2", UnknownEventId},
        read_receipt \in {None, "$1", "$3", UnknownEventId}}

set_read_marker_route ==
    /\ client.served < MaxRequests
    /\ \E user \in {ALICE, BOB}, room_id \in RoomIds, body \in ReadMarkerBodies :
          LET r == set_read_marker(client, user, room_id, body)
          IN  client' = Served(r.store,
                               Request("set_read_marker", user, room_id, body),
                               r.status)
    /\ UNCHANGED <<sendingVars, pushVars, fanout, redaction, outbound, pusherVars,
                   codec, delivery, worker>>

ReadMarkerSpec == ClientInit /\ [][set_read_marker_route]_vars


\* ------------------------------------------------ redaction (src/pdu.rs)
\* redact is called on a stored PDU
redact_pdu ==
    /\ redaction.pc = "idle"
    /\ \E pdu \in RedactedPdus, reason \in Reasons :
          redaction' = [pc |-> "once", original |-> pdu, reason |-> reason,
                        before |-> pdu, pdu |-> redact(pdu, reason).pdu,
                        ok |-> redact(pdu, reason).ok]
    /\ UNCHANGED <<sendingVars, pushVars, fanout, client, outbound, pusherVars, codec, delivery, worker>>

\* redact is called again, with the same reason, on the PDU it left
redact_again ==
    /\ redaction.pc = "once"
    /\ redaction' = [redaction EXCEPT
                        !.pc = "twice",
                        !.before = redaction.pdu,
                        !.pdu = redact(redaction.pdu, redaction.reason).pdu,
                        !.ok = redact(redaction.pdu, redaction.reason).ok]
    /\ UNCHANGED <<sendingVars, pushVars, fanout, client, outbound, pusherVars, codec, delivery, worker>>

RedactSpec == Init /\ [][redact_pdu \/ redact_again]_vars

\* ------------------- the outbound request limit (src/database/sending.rs)
\* permits of the semaphore maximum_requests
maximum_requests == 2

\* the destinations the worker runs handle_event for
OutgoingKinds == {Normal(<<97>>), Appservice(<<120>>), Push(<<117>>)}

permits_held == {t \in Callers : outbound.tasks[t] = "sending"}

\* a task enters send_federation_request / send_appservice_request and
\* awaits maximum_requests.acquire()
await_permit(t) ==
    /\ outbound.tasks[t] = "idle"
    /\ outbound' = [outbound EXCEPT !.tasks[t] = "waiting"]
    /\ UNCHANGED <<sendingVars, pushVars, fanout, client, redaction, pusherVars, codec, delivery, worker>>

\* acquire() returns a permit and the task calls send_request
acquire(t) ==
    /\ outbound.tasks[t] = "waiting"
    /\ Cardinality(permits_held) < maximum_requests
    /\ outbound' = [outbound EXCEPT !.tasks[t] = "sending"]
    /\ UNCHANGED <<sendingVars, pushVars, fanout, client, redaction, pusherVars, codec, delivery, worker>>

\* send_request returns and the permit is dropped
drop_permit(t) ==
    /\ outbound.tasks[t] = "sending"
    /\ outbound' = [outbound EXCEPT !.tasks[t] = "idle"]
    /\ UNCHANGED <<sendingVars, pushVars, fanout, client, redaction, pusherVars, codec, delivery, worker>>

\* handle_event of a destination without a transaction calls send_request
handle_event_send_request(kind) ==
    /\ kind \notin outbound.transactions
    /\ outbound' = [outbound EXCEPT !.transactions = @ \cup {kind}]
    /\ UNCHANGED <<sendingVars, pushVars, fanout, client, redaction, pusherVars, codec, delivery, worker>>

\* the request of handle_event is answered
handle_event_response(kind) ==
    /\ kind \in outbound.transactions
    /\ outbound' = [outbound EXCEPT !.transactions = @ \ {kind}]
    /\ UNCHANGED <<sendingVars, pushVars, fanout, client, redaction, pusherVars, codec, delivery, worker>>

OutboundNext ==
    \/ \E t \in Callers : await_permit(t)
    \/ \E t \in Callers : acquire(t)
    \/ \E t \in Callers : drop_permit(t)
    \/ \E kind \in OutgoingKinds : handle_event_send_request(kind)
    \/ \E kind \in OutgoingKinds : handle_event_response(kind)

OutboundSpec == Init /\ [][OutboundNext]_vars

\* ---------------------------------- the pusher store (src/database/pusher.rs)
\* a client sets, replaces or deletes one of its pushers
set_pusher_call ==
    \E sender \in PusherUsers, pusher \in SetPusherRequests :
        /\ senderkey_pusher' = set_pusher(senderkey_pusher, sender, pusher)
        /\ last_set_pusher' =
              [last_set_pusher EXCEPT ![sender, pusher.pushkey] = {pusher}]
        /\ UNCHANGED <<sendingVars, pushVars, fanout, client, redaction, outbound,
                       codec, delivery, worker>>

PusherSpec == Init /\ [][set_pusher_call]_vars

\* ------------------------------------------ the PDU codec (src/pdu.rs)
\* a stored PDU is converted for a federation peer, which puts the id back
to_outgoing_federation ==
    /\ codec.op = "idle"
    /\ \E pdu \in CodecPdus, origin \in BOOLEAN :
          LET json == IF origin THEN Insert_json(to_value(pdu), "origin", "a")
                      ELSE to_value(pdu)
              outgoing == convert_to_outgoing_federation_event(json)
          IN  codec' = [op |-> "outgoing", pdu |-> pdu, json |-> json,
                        outgoing |-> outgoing,
                        restored |-> from_id_val(pdu.event_id, outgoing)]
    /\ UNCHANGED <<sendingVars, pushVars, fanout, client, redaction, outbound,
                   pusherVars, delivery, worker>>

\* a PDU of a peer receives its event id
incoming_pdu ==
    /\ codec.op = "idle"
    /\ \E pdu \in IncomingPdus :
          codec' = [op |-> "incoming", json |-> from_str(pdu),
                    event_id |-> process_incoming_pdu(pdu).event_id,
                    value |-> process_incoming_pdu(pdu).value]
    /\ UNCHANGED <<sendingVars, pushVars, fanout, client, redaction, outbound,
                   pusherVars, delivery, worker>>

\* a PDU is serialized and deserialized
serialize_deserialize ==
    /\ codec.op = "idle"
    /\ \E pdu \in CodecPdus :
          codec' = [op |-> "round_trip", pdu |-> pdu, json |-> to_value(pdu),
                    restored |-> from_value(to_value(pdu))]
    /\ UNCHANGED <<sendingVars, pushVars, fanout, client, redaction, outbound,
                   pusherVars, delivery, worker>>

CodecNext == to_outgoing_federation \/ incoming_pdu \/ serialize_deserialize

CodecSpec == Init /\ [][CodecNext]_vars

\* ----------------------- batches of the dispatcher (src/database/sending.rs)
\* The worker with many entries for one server: a transaction is outstanding
\* and holds the marker, either the first one to the server or the retry
\* after a batch of DRAIN_BATCH failed, and no, one, or about DRAIN_BATCH
\* further entries, whose wakeups were dropped, are pending.
BatchServer == <<97>>
BatchPending(n) == {send_pdu_key(BatchServer, PduId(100 + i)) : i \in 1..n}
BatchFailed == {send_pdu_key(BatchServer, PduId(i)) : i \in 1..DRAIN_BATCH}

BatchInit ==
    /\ InitExceptSending
    /\ client = InitialStore({})
    /\ \E n \in {0, 1, DRAIN_BATCH - 1, DRAIN_BATCH, DRAIN_BATCH + 1, DRAIN_BATCH + 2},
          retry \in BOOLEAN :
          /\ servernamepduids = BatchPending(n)
          /\ servercurrentpdus =
                {PrefixOf(Normal(BatchServer)),
                 send_pdu_key(BatchServer, PduId(100))}
                \cup (IF retry THEN BatchFailed ELSE {})
          /\ futures = SetToBag({Transaction(Normal(BatchServer), <<PduId(100)>>)})
          /\ last_failed_try =
                (IF retry
                 THEN [k \in {Normal(BatchServer)} |-> [tries |-> 1, instant |-> 0]]
                 ELSE <<>>)
          /\ now = (IF retry THEN TimeStep ELSE 0)
    /\ subscriber = <<>>
    /\ count = MaxPdu
    /\ restarts = 0

BatchNext == Completion \/ start_handler \/ Tick

BatchSpec == BatchInit /\ [][BatchNext]_vars

\* the worker always polls its two sources; a transaction that is not failed
\* is answered; the clock runs
FairSpec ==
    /\ Spec
    /\ WF_vars(Wakeup)
    /\ WF_vars(Tick)
    /\ WF_vars(\E f \in BagToSet(futures) : Success(f) /\ UNCHANGED <<delivery, worker>>)

\* ------------- requests of handle_event, answered (src/database/sending.rs)
\* what the remote end answers to one HTTP request: nothing (the connection
\* fails or times out), or a status with a body that does or does not parse
HttpResponse(reached, status, body_ok) ==
    [reached |-> reached, status |-> status, body_ok |-> body_ok]

Responses ==
    {HttpResponse(TRUE, 200, TRUE), HttpResponse(TRUE, 200, FALSE),
     HttpResponse(TRUE, 500, FALSE), HttpResponse(FALSE, 0, FALSE)}

\* a send_request that takes every answer for Ok
send_request_unchecked(response) == TRUE

\* pusher::send_request returns Ok: the request was executed and
\* IncomingResponse::try_from accepts the response (a status below 400 and a
\* body that parses)
send_request(response) ==
    response.reached /\ response.status < 400 /\ response.body_ok

\* server_server::send_request and appservice_server::send_request return Ok
server_send_request(response) ==
    response.reached /\ response.status < 400 /\ response.body_ok

\* PDUs of a Push transaction: a text message, a message whose content does
\* not deserialize, and an event no default rule notifies for
DeliveryPdus ==
    {Pdu("m.room.message", "m.text", "none", FALSE, FALSE),
     Pdu("m.room.message", "bad", "none", FALSE, FALSE),
     Pdu("m.room.topic", "other", "none", FALSE, FALSE)}

DeliveryPusherLists ==
    { <<Pusher("http", TRUE, "full", "k1")>>,
      <<Pusher("http", FALSE, "full", "k1")>>,
      <<Pusher("email", FALSE, "full", "k1"), Pusher("http", TRUE, "full", "k2")>>,
      <<Pusher("http", FALSE, "full", "k1"), Pusher("http", TRUE, "full", "k2")>> }

\* the members of the PDU's room, with the default rules
DeliveryMembers ==
    UNION {{[i \in 1..n |->
                Member(Users[i], default_pushrules(default_master), ps[i])] :
               ps \in [1..n -> DeliveryPusherLists]} :
           n \in 1..MaxMembers}

\* the pusher of a member a POST went to
PostedPusher(members, post) ==
    CHOOSE q \in UNION {{m.pushers[j] : j \in 1..Len(m.pushers)} :
                           m \in {members[i] : i \in {i \in 1..Len(members) :
                                      members[i].user = post.user}}} :
        q.pushkey = post.notice.pushkey

\* what one handle_event did: the PDU-ids whose PDU it loaded and those it
\* skipped, the number of requests it made, whether one of them was not
\* executed or got an error status (error), whether all of them returned Ok
\* (accepted), whether one of them went to a pusher that is not HTTP or has
\* no url (stray), whether the content of the PDU deserializes, and whether
\* it returned Ok
Delivered(kind, pdus, skipped, requests, error, accepted, stray, decodable, returned) ==
    [kind |-> kind, pdus |-> pdus, skipped |-> skipped, requests |-> requests,
     error |-> error, accepted |-> accepted, stray |-> stray,
     decodable |-> decodable, returned |-> returned]

\* the match on what futures.next() yields
completion_branch(f, returned) == IF returned THEN Success(f) ELSE Failure(f)

\* pdu_ids.iter().map(..).filter_map(|r| r.ok()): the PDU-ids whose PDU the
\* store returns
filter_map_ok(pdu_ids, unloadable) ==
    SelectSeq(pdu_ids, LAMBDA id : id \notin unloadable)

\* the PDU-ids of a transaction the store has no decodable PDU for: none,
\* the first, the last, or all
Unloadables(pdu_ids) ==
    {{}, {pdu_ids[1]}, {pdu_ids[Len(pdu_ids)]},
     {pdu_ids[i] : i \in 1..Len(pdu_ids)}}

\* handle_event(Push(id), [pdu_id]) for the members and the PDU it reads from
\* the store: `bad` are the POSTs that get `response`, every other POST gets
\* a 200
handle_event_Push_answered(kind, members, pdu, response, bad) ==
    LET r == handle_event_push(members, pdu,
                               Room(Len(members), SenderMayNotify, "Room", "Sender", 1),
                               IF send_request(response) THEN {} ELSE bad)
    IN  Delivered(kind, <<>>, {}, Len(r.posts),
            /\ ~response.reached \/ response.status >= 400
            /\ \E i \in 1..Len(r.posts) :
                  <<r.posts[i].user, r.posts[i].notice.pushkey>> \in bad,
            \/ send_request(response)
            \/ \A i \in 1..Len(r.posts) :
                  <<r.posts[i].user, r.posts[i].notice.pushkey>> \notin bad,
            \E i \in 1..Len(r.posts) :
                  LET q == PostedPusher(members, r.posts[i])
                  IN  q.kind # "http" \/ ~q.url,
            ~BadContent(pdu),
            r.ok)

\* what the Push arm can do, over the rooms, PDUs and answers explored
PushDeliveries ==
    UNION {{handle_event_Push_answered("Push", members, pdu, response, bad) :
               bad \in Failings(members)} :
           members \in DeliveryMembers, pdu \in DeliveryPdus,
           response \in Responses}

\* handle_event(Push(id), pdu_ids) ran and the worker took its result: the
\* loops run over the PDUs that were loaded (a Push transaction carries one
\* PDU-id)
handle_event_Push_returns(f) ==
    /\ f.kind.tag = "Push"
    /\ \E unloadable \in Unloadables(f.pdus) :
          IF filter_map_ok(f.pdus, unloadable) = <<>>
          THEN /\ delivery' = {Delivered(f.kind, <<>>, unloadable, 0,
                                         FALSE, TRUE, FALSE, TRUE, TRUE)}
               /\ completion_branch(f, TRUE)
          ELSE \E d \in PushDeliveries :
                  /\ delivery' = {[d EXCEPT !.kind = f.kind,
                                            !.pdus = filter_map_ok(f.pdus, unloadable),
                                            !.skipped = unloadable]}
                  /\ completion_branch(f, d.returned)

\* handle_event(Normal(server) or Appservice(server), pdu_ids) ran and the
\* worker took its result: one request with the PDUs that were loaded
handle_event_server_returns(f) ==
    /\ f.kind.tag # "Push"
    /\ \E response \in Responses, unloadable \in Unloadables(f.pdus) :
          /\ delivery' =
                {Delivered(f.kind, filter_map_ok(f.pdus, unloadable), unloadable, 1,
                    ~response.reached \/ response.status >= 400,
                    server_send_request(response),
                    FALSE, TRUE, server_send_request(response))}
          /\ completion_branch(f, server_send_request(response))

handle_event_returns ==
    /\ \E f \in BagToSet(futures) :
          handle_event_Push_returns(f) \/ handle_event_server_returns(f)
    /\ UNCHANGED worker

\* PDUs handed to the senders while the answers are explored
MaxDeliveries == 2

DeliveryEnqueue ==
    /\ count < MaxDeliveries
    /\ (send_pdu \/ send_pdu_appservice \/ send_push_pdu)

DeliveryNext ==
    \/ DeliveryEnqueue
    \/ Wakeup
    \/ handle_event_returns
    \/ start_handler
    \/ Tick

DeliverySpec == Init /\ [][DeliveryNext]_vars

\* ------- the worker, one store operation at a time (src/database/sending.rs)
\* The branches of the select run to their end before the next select; what
\* can fall between two of their store operations is an insert of a sender
\* into the pending table and the end of the process.

\* a move that deletes the pending key before it writes the in-flight key
remove_then_insert(op) == IF op = 1 THEN "remove" ELSE "insert"

\* the two store operations of a pending-to-in-flight move, in program order:
\* servercurrentpdus.insert(key), then servernamepduids.remove(key)
move_op(op) == IF op = 1 THEN "insert" ELSE "remove"

\* pc: "wakeup" in the moves of the subscriber branch, "drain" in the moves
\* of the success branch
Moving(pc, kind, keys) == [pc |-> pc, kind |-> kind, keys |-> keys, i |-> 1, op |-> 1]

Deleting(kind, keys) == [pc |-> "delete", kind |-> kind, keys |-> keys, i |-> 1, op |-> 0]

\* the subscriber branch up to the compare_and_swap: the event is taken, and
\* when the filter passes the marker is written
wakeup_reserve ==
    /\ worker.pc = "idle"
    /\ subscriber # <<>>
    /\ subscriber' = Tail(subscriber)
    /\ LET event == Head(subscriber)
           parsed == parse_servernamepduid(event.key)
       IN  IF /\ event.insert /\ parsed.ok /\ ~InBackoff(parsed.kind)
              /\ compare_and_swap_reserves(PrefixOf(parsed.kind))
           THEN /\ servercurrentpdus' = servercurrentpdus \cup {PrefixOf(parsed.kind)}
                /\ worker' = Moving("wakeup", parsed.kind, <<event.key>>)
           ELSE UNCHANGED <<servercurrentpdus, worker>>
    /\ UNCHANGED <<servernamepduids, futures, last_failed_try, now, count, restarts>>
    /\ UNCHANGED <<otherVars, delivery>>

\* one store operation of the move of keys[i]; after the last one the
\* transaction is pushed (wakeup: the woken key; drain: new_pdus)
move_step ==
    /\ worker.pc \in {"wakeup", "drain"}
    /\ LET key == worker.keys[worker.i]
           prefix == PrefixOf(worker.kind)
           last == worker.op = 2 /\ worker.i = Len(worker.keys)
       IN  /\ IF move_op(worker.op) = "insert"
              THEN /\ servercurrentpdus' = servercurrentpdus \cup {key}
                   /\ UNCHANGED <<servernamepduids, subscriber>>
              ELSE /\ servernamepduids' = servernamepduids \ {key}
                   /\ subscriber' = IF key \in servernamepduids
                                    THEN Append(subscriber, Remove(key))
                                    ELSE subscriber
                   /\ UNCHANGED servercurrentpdus
           /\ IF last
              THEN /\ futures' = futures (+) SetToBag({Transaction(worker.kind,
                          [j \in 1..Len(worker.keys) |->
                              SubSeq(worker.keys[j], Len(prefix) + 1,
                                     Len(worker.keys[j]))])})
                   /\ worker' = WorkerIdle
              ELSE /\ UNCHANGED futures
                   /\ worker' = IF worker.op = 1
                                THEN [worker EXCEPT !.op = 2]
                                ELSE [worker EXCEPT !.op = 1, !.i = worker.i + 1]
    /\ UNCHANGED <<last_failed_try, now, count, restarts>>
    /\ UNCHANGED <<otherVars, delivery>>

\* futures.next() yields Ok(outgoing_kind): the scan of the in-flight keys of
\* the prefix begins
success_begin ==
    /\ worker.pc = "idle"
    /\ \E f \in BagToSet(futures) :
          /\ futures' = futures (-) SetToBag({f})
          /\ worker' = Deleting(f.kind, SortedKeys(EntriesOf(PrefixOf(f.kind))))
    /\ UNCHANGED <<servernamepduids, servercurrentpdus, last_failed_try,
                   subscriber, now, count, restarts>>
    /\ UNCHANGED <<otherVars, delivery>>

\* servercurrentpdus.remove(key) of the scan
delete_step ==
    /\ worker.pc = "delete"
    /\ worker.i <= Len(worker.keys)
    /\ servercurrentpdus' = servercurrentpdus \ {worker.keys[worker.i]}
    /\ worker' = [worker EXCEPT !.i = worker.i + 1]
    /\ UNCHANGED <<servernamepduids, futures, last_failed_try, subscriber, now,
                   count, restarts>>
    /\ UNCHANGED <<otherVars, delivery>>

\* the scan of the pending table for new_pdus: with new PDUs the moves begin,
\* without the marker is removed
drain_or_release ==
    /\ worker.pc = "delete"
    /\ worker.i > Len(worker.keys)
    /\ LET new_keys == NewKeys(PrefixOf(worker.kind))
       IN  IF new_keys # <<>>
           THEN /\ worker' = Moving("drain", worker.kind, new_keys)
                /\ UNCHANGED servercurrentpdus
           ELSE /\ worker' = WorkerIdle
                /\ servercurrentpdus' = servercurrentpdus \ {PrefixOf(worker.kind)}
    /\ UNCHANGED <<servernamepduids, futures, last_failed_try, subscriber, now,
                   count, restarts>>
    /\ UNCHANGED <<otherVars, delivery>>

\* futures.next() yields Err: one store operation
failure_branch ==
    /\ worker.pc = "idle"
    /\ \E f \in BagToSet(futures) : Failure(f)
    /\ UNCHANGED <<delivery, worker>>

\* PDUs handed to the senders while the store operations are explored
MaxMoves == 2

StepEnqueue ==
    /\ count < MaxMoves
    /\ (send_pdu \/ send_pdu_appservice \/ send_push_pdu)

StepNext ==
    \/ StepEnqueue
    \/ wakeup_reserve
    \/ move_step
    \/ success_begin
    \/ delete_step
    \/ drain_or_release
    \/ failure_branch
    \/ start_handler
    \/ Tick

StepSpec == Init /\ [][StepNext]_vars

\* ------------------- push entries of PDUs anywhere in the log (sending.rs)
\* the last byte of the big-endian counter of a PDU-id: ASCII up to 127,
\* no UTF-8 on its own from 128 on
CounterBytes == {1, 2, 127, 128, 129, 200}

\* send_push_pdu(pdu_id) for the PDU with the given counter
send_push_pdu_of(n) == Enqueue(send_push_pdu_key(PduId(n)))

PushKeyNext ==
    \/ \E n \in CounterBytes : send_push_pdu_of(n)
    \/ Wakeup
    \/ Completion
    \/ Tick

PushKeySpec == Init /\ [][PushKeyNext]_vars

\* ------------------------------------------------------------------ claims
IsMarker(key) == FirstSep(key) = Len(key)
PduOf(key) == splitn2(key)[2]
Dispatched(f) == CopiesIn(f, futures') > CopiesIn(f, futures)
Completed(f) == CopiesIn(f, futures') < CopiesIn(f, futures)
Outstanding(kind) == \E f \in BagToSet(futures) : f.kind = kind
CarriedKeys(f) == {PrefixOf(f.kind) \o f.pdus[i] : i \in 1..Len(f.pdus)}

\* C1: in every reachable state at most one transaction per destination is
\* outstanding.
C1_AtMostOneTransaction ==
    \A f \in BagToSet(futures) :
        /\ CopiesIn(f, futures) = 1
        /\ \A g \in BagToSet(futures) : g.kind = f.kind => g = f

\* C2: a step removes an in-flight entry (not a marker) only when it completes
\* a transaction to the entry's destination that carried the entry's PDU.
C2_RemovedOnlyByOwnSuccess ==
    [][\A key \in servercurrentpdus \ servercurrentpdus' :
          \/ IsMarker(key)
          \/ \E f \in BagToSet(futures) : Completed(f) /\ key \in CarriedKeys(f)]_vars

\* C3: every entry written to the pending table is eventually gone from both
\* tables (carried by a successful transaction), without further enqueues.
C3_EventuallySent ==
    \A n \in 1..MaxPdu :
        \A key \in {send_pdu_key(s, PduId(n)) : s \in Servers}
                 \cup {send_pdu_appservice_key(a, PduId(n)) : a \in AppserviceIds}
                 \cup {send_push_pdu_key(PduId(n))} :
            (key \in servernamepduids)
                ~> (key \notin servernamepduids /\ key \notin servercurrentpdus)

\* C4: in one process run, the transaction dispatched to a destination that
\* has failed and has no transaction outstanding carries every PDU-id its
\* failed transaction left in the in-flight table.
C4_RetryCarriesFailedPdus ==
    [][\A f \in BagToSet(futures') :
          (/\ Dispatched(f)
           /\ restarts' = restarts
           /\ f.kind \in DOMAIN last_failed_try
           /\ ~Outstanding(f.kind))
          => \A key \in EntriesOf(PrefixOf(f.kind)) : key \in CarriedKeys(f)]_vars

\* C5: no transaction is dispatched to a destination with failure record
\* (k, t_last) before min(60*k*k s, 24 h) have passed since t_last.
C5_NoDispatchInBackoff ==
    [][\A f \in BagToSet(futures') :
          (Dispatched(f) /\ f.kind \in DOMAIN last_failed_try')
          => LET last == last_failed_try'[f.kind]
                 w == 60 * last.tries * last.tries
             IN  now' - last.instant >= (IF w < DAY THEN w ELSE DAY)]_vars

\* C6: while a transaction to D carries P2, no P1 < P2 enqueued for D is still
\* waiting in the pending table (it would be carried later than P2).
C6_AppendOrder ==
    \A f \in BagToSet(futures) :
        \A i \in 1..Len(f.pdus) :
            \A key \in servernamepduids :
                starts_with(key, PrefixOf(f.kind))
                    => ~KeyLess(PduOf(key), f.pdus[i])

\* C7: when the worker starts, every in-flight entry (D, P) that is not a
\* marker is carried by a launched transaction to D.
C7_RecoveryLaunchesAll ==
    [][restarts' # restarts
        => \A key \in servercurrentpdus' :
              IsMarker(key)
              \/ \E f \in BagToSet(futures') :
                    /\ f.kind = parse_servernamepduid(key).kind
                    /\ \E i \in 1..Len(f.pdus) : f.pdus[i] = PduOf(key)]_vars

\* C8: a failed transaction to D changes only D's failure record and D's
\* marker; a sender inserts exactly one key into the pending table and
\* changes nothing else.
C8_FailureIsLocal ==
    [][/\ \A f \in BagToSet(futures) :
            (/\ futures' = futures (-) SetToBag({f})
             /\ last_failed_try' # last_failed_try
             /\ restarts' = restarts)
            => /\ servernamepduids' = servernamepduids
               /\ servercurrentpdus' \subseteq servercurrentpdus
               /\ servercurrentpdus \ servercurrentpdus' \subseteq {PrefixOf(f.kind)}
               /\ DOMAIN last_failed_try' = DOMAIN last_failed_try \cup {f.kind}
               /\ \A k \in DOMAIN last_failed_try :
                     k # f.kind => last_failed_try'[k] = last_failed_try[k]
       /\ count' # count
            => /\ servernamepduids \subseteq servernamepduids'
               /\ Cardinality(servernamepduids' \ servernamepduids) = 1
               /\ servercurrentpdus' = servercurrentpdus
               /\ futures' = futures
               /\ last_failed_try' = last_failed_try]_vars

\* a destination has a failure record while another destination holds its
\* marker and an in-flight entry, and an entry is pending
C8_Witness ==
    \E k \in DOMAIN last_failed_try :
        /\ \E m \in servercurrentpdus :
              IsMarker(m) /\ m # PrefixOf(k) /\ EntriesOf(m) # {}
        /\ servernamepduids # {}

\* the first enabled rule of the ruleset whose arm matches the PDU (0: none)
FirstMatch(in) ==
    LET hits == {i \in 1..Len(in.ruleset) :
                    /\ in.ruleset[i].enabled
                    /\ ArmMatches(in.ruleset[i].rule_id, in.pdu, in.room)}
    IN  IF hits = {} THEN 0 ELSE CHOOSE i \in hits : \A j \in hits : i <= j

\* C9: when the first enabled matching rule has the DontNotify action nothing
\* is POSTed; in particular an m.notice message is never POSTed.
C9_DontNotifySuppresses ==
    push_pc = "done" =>
        LET i == FirstMatch(push_input)
        IN  (/\ i > 0
             /\ \E a \in 1..Len(push_input.ruleset[i].actions) :
                   push_input.ruleset[i].actions[a] = "DontNotify")
            => push_result.posts = <<>>

\* C10: with .m.rule.master enabled no notification is sent, whatever the PDU.
C10_MasterSuppresses ==
    push_pc = "done" =>
        ((\E i \in 1..Len(push_input.ruleset) :
            /\ push_input.ruleset[i].rule_id = ".m.rule.master"
            /\ push_input.ruleset[i].enabled)
         => push_result.posts = <<>>)

\* the rule the spec's evaluation stops at notifies: the first enabled rule
\* that matches the PDU exists and has no DontNotify action
YieldsNotifyingRule(member, pdu, room) ==
    LET in == [ruleset |-> member.ruleset, pdu |-> pdu, room |-> room]
        i == FirstMatch(in)
    IN  /\ i > 0
        /\ \A a \in 1..Len(member.ruleset[i].actions) :
              member.ruleset[i].actions[a] # "DontNotify"

\* the POSTs of the transaction made to one pusher of one member
PostsTo(user, pushkey) ==
    {i \in 1..Len(fanout.result.posts) :
        /\ fanout.result.posts[i].user = user
        /\ fanout.result.posts[i].notice.pushkey = pushkey}

\* C11: in one Push transaction every HTTP pusher with a url of every member
\* whose ruleset yields a notifying rule is POSTed exactly one Notification,
\* and no pusher is POSTed more than one.
C11_OneNoticePerPusher ==
    fanout.pc = "done" =>
        \A m \in 1..Len(fanout.input.members) :
            LET member == fanout.input.members[m]
            IN  \A j \in 1..Len(member.pushers) :
                   LET pusher == member.pushers[j]
                       n == Cardinality(PostsTo(member.user, pusher.pushkey))
                   IN  /\ n <= 1
                       /\ (/\ pusher.kind = "http"
                           /\ pusher.url
                           /\ YieldsNotifyingRule(member, fanout.input.pdu,
                                                  fanout.input.room))
                          => n = 1

\* the rule at which the loop of send_push_notice stops: the first rule not
\* passed over whose arm matches the PDU (0: none)
MatchedRule(in) ==
    LET hits == {i \in 1..Len(in.ruleset) :
                    /\ ~Skipped(in.ruleset[i])
                    /\ ArmMatches(in.ruleset[i].rule_id, in.pdu, in.room)}
    IN  IF hits = {} THEN 0 ELSE CHOOSE i \in hits : \A j \in hits : i <= j

\* the priority of every Notification is high exactly when the PDU is
\* encrypted or the tweaks of the matched rule include highlight:true or a sound
PriorityFollowsTweaks ==
    \A i \in 1..Len(push_result.posts) :
        LET tweaks == TweaksOf(push_input.ruleset[MatchedRule(push_input)])
        IN  /\ push_result.posts[i].prio \in {"High", "Low"}
            /\ push_result.posts[i].prio = "High"
                  <=> \/ push_input.pdu.kind = "m.room.encrypted"
                      \/ \E t \in 1..Len(tweaks) :
                            tweaks[t] \in {"Highlight(true)", "Sound"}

\* scenario A6: a plain m.room.message in a 2-member room, the default
\* ruleset, one HTTP pusher with a url and the format event_id_only
OneToOneMessage ==
    /\ push_input.pdu.kind = "m.room.message"
    /\ push_input.pdu.content = "m.text"
    /\ ~push_input.pdu.body_has_localpart
    /\ ~push_input.pdu.body_has_room
    /\ push_input.room.members = 2
    /\ push_input.ruleset = default_pushrules(default_master)
    /\ Len(push_input.pushers) = 1
    /\ push_input.pushers[1].kind = "http"
    /\ push_input.pushers[1].url
    /\ push_input.pushers[1].format = "event_id_only"

\* C12: a Notification's priority is high iff the PDU is m.room.encrypted or
\* the matched rule's tweaks include highlight:true or a sound, else low; the
\* one-to-one message of scenario A6 is POSTed once, with priority low.
C12_Priority ==
    push_pc = "done" =>
        /\ PriorityFollowsTweaks
        /\ OneToOneMessage =>
              /\ Len(push_result.posts) = 1
              /\ push_result.posts[1].prio = "Low"

\* the pusher of the evaluated call a Notification was built for
PusherOf(notice) ==
    CHOOSE q \in {push_input.pushers[j] : j \in 1..Len(push_input.pushers)} :
        q.pushkey = notice.pushkey

\* C13: every Notification carries the event id, the room id and the counts
\* {unread, 0}, and its device data has no url; for an event_id_only pusher it
\* has no sender, event type, content, sender display name or room name and
\* its device no tweaks; for another format these are those of the PDU, of
\* its sender and of its room.
C13_EventIdOnlyPayload ==
    push_pc = "done" =>
        \A i \in 1..Len(push_result.posts) :
            LET n == push_result.posts[i]
                pdu == push_input.pdu
                room == push_input.room
            IN  /\ n.device_data = [url |-> FALSE, format |-> PusherOf(n).format]
                /\ n.event_id = pdu.event_id
                /\ n.room_id = pdu.room_id
                /\ n.counts = [unread |-> room.unread, missed_calls |-> 0]
                /\ IF PusherOf(n).format = "event_id_only"
                   THEN /\ n.sender = None
                        /\ n.event_type = None
                        /\ n.content = None
                        /\ n.sender_display_name = None
                        /\ n.room_name = None
                        /\ n.device_tweaks = <<>>
                   ELSE /\ n.sender = pdu.sender
                        /\ n.event_type = pdu.kind
                        /\ n.content = pdu.content
                        /\ n.sender_display_name = room.sender_display_name
                        /\ n.room_name = room.name

\* one evaluation POSTed to an event_id_only pusher and to a pusher of the
\* full format, for a rule with tweaks, a named room and a sender with a
\* display name, with unread messages
C13_Witness ==
    /\ push_pc = "done"
    /\ push_input.room.unread > 0
    /\ \E i, j \in 1..Len(push_result.posts) :
          /\ PusherOf(push_result.posts[i]).format = "event_id_only"
          /\ push_result.posts[i].sender = None
          /\ PusherOf(push_result.posts[j]).format = "full"
          /\ push_result.posts[j].device_tweaks # <<>>
          /\ push_result.posts[j].room_name = "Room"
          /\ push_result.posts[j].sender_display_name = "Sender"

\* the aliases a canonical alias content lists: the primary one and the
\* alternative ones
ListedAliases(content) ==
    {content.alt_aliases[i] : i \in 1..Len(content.alt_aliases)}
    \cup ({content.alias} \ {NoAlias})

\* C14: a canonical alias event listing an alias that is not on this server
\* or does not resolve to the target room is answered Forbidden; no PDU is
\* appended, the room state is unchanged and nothing is enqueued.
C14_CanonicalAliasGate ==
    [][(/\ client'.served # client.served
        /\ client'.request.route = "send_state_event_for_key"
        /\ client'.request.body.event_type = "m.room.canonical_alias"
        /\ \E alias \in ListedAliases(client'.request.body.content) :
              \/ alias.server # SERVER_NAME
              \/ id_from_alias(alias) # client'.request.room_id)
       => /\ client'.response.status = "Forbidden"
          /\ client'.pdus = client.pdus
          /\ client'.state = client.state
          /\ servernamepduids' = servernamepduids
          /\ subscriber' = subscriber]_vars

\* after an accepted state event, a canonical alias event whose primary alias
\* resolves to the room and whose alternative alias does not was refused
C14_Witness ==
    /\ client.served = 2
    /\ Len(client.pdus) > Len(InitialStore({}).pdus)
    /\ servernamepduids # {}
    /\ client.request.route = "send_state_event_for_key"
    /\ client.request.body.event_type = "m.room.canonical_alias"
    /\ client.request.body.content.alias # NoAlias
    /\ id_from_alias(client.request.body.content.alias) = client.request.room_id
    /\ \E i \in 1..Len(client.request.body.content.alt_aliases) :
          id_from_alias(client.request.body.content.alt_aliases[i])
              # client.request.room_id
    /\ client.response.status = "Forbidden"

\* C15: the get routes answer a user who is not joined to the room with the
\* state only if the room's current history visibility is world_readable and
\* with Forbidden otherwise; a joined user is never answered Forbidden.
C15_StateReadAccess ==
    client.request.route \in GetRoutes =>
        LET user == client.request.user
            room_id == client.request.room_id
            visibility ==
                {client.pdus[client.state[k]].content :
                    k \in DOMAIN client.state
                          \cap {StateKey(room_id, "m.room.history_visibility", "")}}
            readable == \E c \in visibility :
                           /\ "history_visibility" \in DOMAIN c
                           /\ c.history_visibility = "world_readable"
        IN  /\ is_joined(user, room_id) => client.response.status # "Forbidden"
            /\ ~is_joined(user, room_id) =>
                  (client.response.status = "Forbidden" <=> ~readable)

\* a user who is not joined read the state of a world_readable room
C15_Witness ==
    /\ client.request.route \in GetRoutes
    /\ ~is_joined(client.request.user, client.request.room_id)
    /\ client.response.status = "Ok"

\* the member events of a user in a room that a step appended
NewMemberEvents(user, room_id) ==
    {i \in (Len(client.pdus) + 1)..Len(client'.pdus) :
        /\ client'.pdus[i].room = room_id
        /\ client'.pdus[i].kind = "m.room.member"
        /\ client'.pdus[i].state_key = user}

\* a successful set_displayname appended, in every joined room, exactly one
\* member event of the user with the new displayname and the other member
\* fields of the previous one, and the current state points to it
MemberEventPerRoom(user, displayname) ==
    \A r \in 1..Len(rooms_joined(user)) :
        LET room_id == rooms_joined(user)[r]
            key == StateKey(room_id, "m.room.member", user)
            old == client.pdus[client.state[key]].content
        IN  /\ Cardinality(NewMemberEvents(user, room_id)) = 1
            /\ \A i \in NewMemberEvents(user, room_id) :
                  /\ client'.pdus[i].content.displayname = displayname
                  /\ client'.pdus[i].content.membership = old.membership
                  /\ client'.pdus[i].content.avatar_url = old.avatar_url
                  /\ client'.state[key] = i

\* C16: set_displayname(user, name) appends per joined room exactly one member
\* event with displayname = name and the other member fields preserved, which
\* becomes the current state; when the append fails in a room, no room is left
\* with the stored displayname changed and no member event for it.
C16_DisplaynameChange ==
    [][(/\ client'.served # client.served
        /\ client'.request.route = "set_displayname")
       => LET user == client'.request.user
          IN  /\ client'.response.status = "Ok"
                    => MemberEventPerRoom(user, client'.request.body)
              /\ client'.response.status # "Ok"
                    => ~ /\ client'.displayname[user] # client.displayname[user]
                         /\ \E r \in 1..Len(rooms_joined(user)) :
                               NewMemberEvents(user, rooms_joined(user)[r]) = {}]_vars

\* the content of the PDU is the whitelisted part of the original content
WhitelistedContent ==
    /\ redaction.pdu.content.is_object
    /\ redaction.pdu.content.fields =
          Projection(redaction.original.content.fields,
                     allowed(redaction.original.kind))

\* no field other than content and unsigned differs from the original
OtherFieldsUnchanged ==
    [redaction.pdu EXCEPT !.content = redaction.original.content,
                          !.unsigned = redaction.original.unsigned]
        = redaction.original

\* C17: after redact(pdu, reason) the content is exactly the whitelisted keys
\* of the original content, with their values, unsigned is exactly
\* {redacted_because: reason}, and every other field is as it was.
C17_Redact ==
    redaction.pc = "once"
    => /\ WhitelistedContent
       /\ redaction.pdu.unsigned =
             [k \in {"redacted_because"} |-> redaction.reason]
       /\ OtherFieldsUnchanged

\* C18: for a PDU with object content, redacting the redacted PDU again with
\* the same reason leaves every field as the first redaction left it.
C18_RedactIdempotent ==
    (redaction.pc = "twice" /\ redaction.original.content.is_object)
    => /\ redaction.ok
       /\ redaction.pdu = redaction.before

\* a state-event with a whitelisted and another key, and a non-empty
\* unsigned, was redacted twice
C18_Witness ==
    /\ redaction.pc = "twice"
    /\ redaction.original.content.is_object
    /\ DOMAIN redaction.original.content.fields = {"membership", "body"}
    /\ redaction.original.kind = "m.room.member"
    /\ redaction.original.unsigned # EmptyMap
    /\ DOMAIN redaction.pdu.content.fields = {"membership"}
    /\ redaction.pdu # redaction.original

\* the outbound HTTP requests awaiting their response
outstanding_requests ==
    Cardinality(permits_held) + Cardinality(outbound.transactions)

\* C19: the number of outstanding outbound HTTP requests, those of
\* handle_event included, never exceeds the permits of the semaphore.
C19_SemaphoreBoundsRequests == outstanding_requests <= maximum_requests

\* C20: a successful transaction to D leaves D without a failure record.
C20_SuccessClearsFailureRecord ==
    [][\A f \in BagToSet(futures) :
          Success(f) => f.kind \notin DOMAIN last_failed_try']_vars

\* the pushers get_pusher has to return for a user: those of the last
\* set_pusher call of each pushkey, when that call had a kind
PushersSet(user) ==
    {pusher \in UNION {last_set_pusher[user, pushkey] : pushkey \in Pushkeys} :
        pusher.kind # None}

C22_OutgoingFederation ==
    codec.op = "outgoing"
    => /\ DOMAIN codec.outgoing = DOMAIN codec.json \ {"event_id"}
       /\ \A k \in DOMAIN codec.outgoing \ {"unsigned"} :
             codec.outgoing[k] = codec.json[k]
       /\ "unsigned" \in DOMAIN codec.json
          => codec.outgoing["unsigned"] =
                Without(codec.json["unsigned"], {"transaction_id"})
       /\ codec.restored.ok
       /\ codec.restored.pdu =
             [codec.pdu EXCEPT !.unsigned = Without(@, {"transaction_id"})]

\* a state event with a transaction id and another unsigned entry was sent
C22_Witness ==
    /\ codec.op = "outgoing"
    /\ DOMAIN codec.pdu.unsigned = {"age", "transaction_id"}
    /\ DOMAIN codec.outgoing["unsigned"] = {"age"}
    /\ codec.pdu.state_key = ""
    /\ "origin" \in DOMAIN codec.outgoing
    /\ codec.restored.pdu # codec.pdu

\* C23: the event id process_incoming_pdu assigns is "$" followed by the
\* reference hash of the PDU without event_id, unsigned and signatures; it is
\* inserted under event_id and every other key is as it was received.
C23_EventIdIsReferenceHash ==
    codec.op = "incoming"
    => /\ codec.event_id =
             EventId_of(reference_hash(
                Without(codec.value, {"event_id", "unsigned", "signatures"})))
       /\ codec.value["event_id"] = codec.event_id
       /\ Without(codec.value, {"event_id"}) = Without(codec.json, {"event_id"})

\* C24: a PDU serialized to JSON and deserialized again is the same PDU in
\* every field, also when state_key and redacts are absent and unsigned is
\* empty.
C24_CodecRoundTrip ==
    codec.op = "round_trip"
    => /\ codec.restored.ok
       /\ codec.restored.pdu = codec.pdu

\* a PDU without state_key, redacts and unsigned went through the codec
C24_Witness ==
    /\ codec.op = "round_trip"
    /\ codec.pdu.state_key = None
    /\ codec.pdu.redacts = None
    /\ codec.pdu.unsigned = EmptyMap
    /\ DOMAIN codec.json = RequiredKeys
    /\ codec.restored.ok

\* ---- steps of the worker, told from the states before and after
\* the transaction f completed with Ok
SuccessOf(f) ==
    /\ Completed(f)
    /\ last_failed_try' = last_failed_try
    /\ restarts' = restarts

\* the transaction f completed with Err
FailureOf(f) ==
    /\ futures' = futures (-) SetToBag({f})
    /\ last_failed_try' # last_failed_try
    /\ restarts' = restarts

\* the worker took the first event of the watcher
WakeupStep ==
    /\ subscriber # <<>>
    /\ restarts' = restarts
    /\ subscriber' # subscriber
    /\ Len(subscriber') <= Len(subscriber)

\* the pending keys of a destination
PendingOf(prefix) == {k \in servernamepduids : starts_with(k, prefix)}

\* the destination has a failure record whose window has not passed
WindowOpen(kind) ==
    /\ kind \in DOMAIN last_failed_try
    /\ LET w == 60 * last_failed_try[kind].tries * last_failed_try[kind].tries
       IN  now - last_failed_try[kind].instant < (IF w < DAY THEN w ELSE DAY)

\* some transaction was dispatched in the step
SomeDispatch == \E g \in BagToSet(futures') : Dispatched(g)

\* C25: a success for D deletes D's in-flight entries and keeps the marker;
\* the pending entries of D are moved to in-flight and carried by a new
\* transaction; after the step D's marker is present iff the pending table
\* held an entry for D, iff a new transaction to D was dispatched.
C25_SuccessCompletion ==
    [][\A f \in BagToSet(futures) :
          SuccessOf(f)
          => LET prefix == PrefixOf(f.kind)
                 new_keys == NewKeys(prefix)
                 moved == {new_keys[i] : i \in 1..Len(new_keys)}
             IN  /\ {k \in servercurrentpdus' :
                        starts_with(k, prefix) /\ ~IsMarker(k)} = moved
                 /\ servernamepduids' = servernamepduids \ moved
                 /\ (prefix \in servercurrentpdus') <=> (PendingOf(prefix) # {})
                 /\ (PendingOf(prefix) # {})
                        <=> \E g \in BagToSet(futures') :
                               /\ Dispatched(g)
                               /\ g.kind = f.kind
                               /\ CarriedKeys(g) = moved]_vars

\* C27: a failure for D sets D's failure count to 1 if D had no record and to
\* the previous count + 1 otherwise, sets last_attempt to the current time,
\* deletes D's marker and leaves D's in-flight and pending entries in place.
C27_FailureCompletion ==
    [][\A f \in BagToSet(futures) :
          FailureOf(f)
          => LET prefix == PrefixOf(f.kind)
             IN  /\ f.kind \in DOMAIN last_failed_try'
                 /\ last_failed_try'[f.kind].tries =
                       (IF f.kind \in DOMAIN last_failed_try
                        THEN last_failed_try[f.kind].tries + 1 ELSE 1)
                 /\ last_failed_try'[f.kind].instant = now
                 /\ prefix \notin servercurrentpdus'
                 /\ EntriesOf(prefix) \subseteq servercurrentpdus'
                 /\ PendingOf(prefix) \subseteq servernamepduids']_vars

\* a destination failed twice and still has its in-flight entry, no marker,
\* and a pending entry
C27_Witness ==
    \E kind \in DOMAIN last_failed_try :
        /\ last_failed_try[kind].tries = 2
        /\ last_failed_try[kind].instant = now
        /\ now > 0
        /\ PrefixOf(kind) \notin servercurrentpdus
        /\ EntriesOf(PrefixOf(kind)) # {}
        /\ PendingOf(PrefixOf(kind)) # {}

\* C28: the wakeup of a PDU of D handled while a transaction to D is
\* outstanding dispatches nothing and leaves the entry pending; when a
\* transaction to D succeeds, the pending entries of D are carried by the
\* follow-up transaction of that step.
C28_DrainedByFollowUp ==
    [][/\ (WakeupStep /\ Head(subscriber).insert
              /\ parse_servernamepduid(Head(subscriber).key).ok
              /\ Outstanding(parse_servernamepduid(Head(subscriber).key).kind))
          => /\ ~SomeDispatch
             /\ servernamepduids' = servernamepduids
       /\ \A f \in BagToSet(futures) :
            SuccessOf(f)
            => \A key \in PendingOf(PrefixOf(f.kind)) :
                  Cardinality(PendingOf(PrefixOf(f.kind))) <= DRAIN_BATCH
                  => \E g \in BagToSet(futures') :
                        /\ Dispatched(g)
                        /\ g.kind = f.kind
                        /\ key \in CarriedKeys(g)]_vars

\* the wakeup at the head of the watcher is one the worker has to drop
DroppedWakeup ==
    /\ WakeupStep
    /\ LET event == Head(subscriber)
           parsed == parse_servernamepduid(event.key)
       IN  \/ ~event.insert
           \/ ~parsed.ok
           \/ WindowOpen(parsed.kind)
           \/ PrefixOf(parsed.kind) \in servercurrentpdus

\* C29: a dropped wakeup (Remove event, key not decodable, destination in
\* backoff or already reserved) changes neither table nor the failure
\* records and dispatches nothing.
C29_DroppedWakeupChangesNothing ==
    [][DroppedWakeup
        => /\ servernamepduids' = servernamepduids
           /\ servercurrentpdus' = servercurrentpdus
           /\ last_failed_try' = last_failed_try
           /\ futures' = futures]_vars

\* the wakeup of a pending entry was dropped and its destination is in
\* backoff: the entry is pending, no marker exists, nothing is outstanding
C29_Witness ==
    \E kind \in DOMAIN last_failed_try :
        /\ WindowOpen(kind)
        /\ PrefixOf(kind) \notin servercurrentpdus
        /\ ~Outstanding(kind)
        /\ \E key \in PendingOf(PrefixOf(kind)) :
              \A i \in 1..Len(subscriber) : subscriber[i] # Insert(key)

\* C30: a wakeup moves its key to the in-flight table and dispatches a
\* transaction for exactly that PDU-id only when the destination's marker was
\* absent, and it then writes the marker; every transaction dispatched in
\* steady state has its destination's marker, and the marker stays while the
\* transaction is outstanding.
C30_ReserveAndMove ==
    [][/\ (WakeupStep /\ Head(subscriber).insert
              /\ parse_servernamepduid(Head(subscriber).key).ok)
          => LET key == Head(subscriber).key
                 parsed == parse_servernamepduid(key)
                 prefix == PrefixOf(parsed.kind)
             IN  IF prefix \notin servercurrentpdus /\ ~WindowOpen(parsed.kind)
                 THEN /\ servercurrentpdus' = servercurrentpdus \cup {prefix, key}
                      /\ servernamepduids' = servernamepduids \ {key}
                      /\ futures' = futures (+)
                            SetToBag({Transaction(parsed.kind, <<parsed.pdu>>)})
                 ELSE /\ servercurrentpdus' = servercurrentpdus
                      /\ servernamepduids' = servernamepduids
                      /\ futures' = futures
       /\ \A g \in BagToSet(futures') :
            (Dispatched(g) /\ restarts' = restarts)
            => PrefixOf(g.kind) \in servercurrentpdus'
       /\ \A f \in BagToSet(futures) :
            (/\ restarts' = restarts
             /\ CopiesIn(f, futures') >= CopiesIn(f, futures)
             /\ PrefixOf(f.kind) \in servercurrentpdus)
            => PrefixOf(f.kind) \in servercurrentpdus']_vars

\* C26: every dispatched transaction, at startup recovery too, carries at
\* most 50 PDU-ids; the follow-up of a success carries the 50 smallest
\* pending keys of the destination (all of them if fewer), in ascending key
\* order, and the other pending entries stay in the pending table.
C26_BatchBound ==
    [][/\ \A g \in BagToSet(futures') : Dispatched(g) => Len(g.pdus) <= 50
       /\ \A f \in BagToSet(futures) :
            (SuccessOf(f) /\ PendingOf(PrefixOf(f.kind)) # {})
            => \E g \in BagToSet(futures') :
                  LET pending == PendingOf(PrefixOf(f.kind))
                      carried == CarriedKeys(g)
                  IN  /\ Dispatched(g)
                      /\ g.kind = f.kind
                      /\ carried \subseteq pending
                      /\ Len(g.pdus) = (IF Cardinality(pending) < 50
                                        THEN Cardinality(pending) ELSE 50)
                      /\ \A i, j \in 1..Len(g.pdus) :
                            i < j => KeyLess(g.pdus[i], g.pdus[j])
                      /\ \A k \in pending \ carried, c \in carried : KeyLess(c, k)
                      /\ servernamepduids' = servernamepduids \ carried]_vars

\* a follow-up transaction carries 50 PDU-ids and two entries of its
\* destination are still pending
C26_Witness ==
    \E f \in BagToSet(futures) :
        /\ Len(f.pdus) = 50
        /\ PrefixOf(f.kind) \in servercurrentpdus
        /\ CarriedKeys(f) \subseteq servercurrentpdus
        /\ Cardinality(PendingOf(PrefixOf(f.kind))) = 2

\* (a wakeup dispatches a transaction only for a key that is still pending)
WakeupDispatchesPendingKey ==
    [][(WakeupStep /\ Head(subscriber).insert /\ SomeDispatch)
        => Head(subscriber).key \in servernamepduids]_vars

\* ------------------------------------------------------- destination keys
\* the keys the three senders can write, with the destination and the PDU-id
\* each was written for
KeysWritten ==
    {[key |-> send_pdu_key(server, PduId(n)),
      kind |-> Normal(server), pdu |-> PduId(n)] :
        server \in Servers, n \in 1..MaxPdu}
    \cup {[key |-> send_pdu_appservice_key(id, PduId(n)),
           kind |-> Appservice(id), pdu |-> PduId(n)] :
        id \in AppserviceIds, n \in 1..MaxPdu}
    \cup {[key |-> send_push_pdu_key(PduId(n)),
           kind |-> Push(from_utf8_lossy(PduId(n))), pdu |-> PduId(n)] :
        n \in 1..MaxPdu}

\* C31: a key written by a sender decodes to the destination and the PDU-id
\* it was written for, in the watcher parse and in the recovery parse alike,
\* and the prefix rebuilt from the decoded destination is the prefix of the
\* key
C31_DestinationKeyCodec ==
    \A w \in KeysWritten :
        w.key \in servernamepduids \cup servercurrentpdus =>
            /\ parse_servernamepduid(w.key) = Ok(w.kind, w.pdu)
            /\ parse_servercurrentpdus(w.key) = Ok(w.kind, w.pdu)
            /\ LET r == parse_servercurrentpdus(w.key)
               IN  r.ok /\ PrefixOf(r.kind) \o r.pdu = w.key

\* C32: when a request of a transaction is not executed or gets an error
\* status, the transaction completes as a failure and the failure record of
\* its destination is created with count 1 or its count is incremented; no
\* request goes to a pusher that is not HTTP or has no url, and a transaction
\* that made no request returns Ok when the PDU's content deserializes.
C32_HttpErrorFeedsBackoff ==
    [][\A f \in BagToSet(futures) :
          (Completed(f) /\ restarts' = restarts)
          => \A d \in delivery' :
                /\ d.kind = f.kind
                /\ d.error
                   => /\ FailureOf(f)
                      /\ f.kind \in DOMAIN last_failed_try'
                      /\ last_failed_try'[f.kind].tries = Tries(f.kind) + 1
                      /\ last_failed_try'[f.kind].instant = now
                /\ ~d.stray
                /\ (d.requests = 0 /\ d.decodable) => (d.returned /\ SuccessOf(f))]_vars

\* a Push transaction has failed after the second of its requests was
\* refused, and its destination has a failure record
C32_Witness ==
    \E d \in delivery :
        /\ d.kind.tag = "Push"
        /\ d.requests = 2
        /\ d.error
        /\ ~d.returned
        /\ d.kind \in DOMAIN last_failed_try
        /\ last_failed_try[d.kind].tries = 1

\* C33: when the PDU of a PDU-id of a transaction cannot be loaded, the
\* request is made with the PDUs of the other PDU-ids, in their order; the
\* transaction returns Ok when its requests are accepted; and after a success
\* no in-flight entry of a PDU-id of the transaction, skipped or sent, is
\* left.
C33_UnloadablePduSkipped ==
    [][\A f \in BagToSet(futures) :
          (Completed(f) /\ restarts' = restarts)
          => \A d \in delivery' :
                d.skipped # {}
                => /\ d.pdus = SelectSeq(f.pdus, LAMBDA id : id \notin d.skipped)
                   /\ f.kind.tag # "Push" => d.requests = 1
                   /\ (d.accepted /\ d.decodable) => (d.returned /\ SuccessOf(f))
                   /\ d.returned
                      => \A k \in servercurrentpdus' :
                            ~IsMarker(k) =>
                               \A i \in 1..Len(f.pdus) : PduOf(k) # f.pdus[i]]_vars

\* a text message
TextMessage(pdu) == pdu.kind = "m.room.message" /\ pdu.content = "m.text"

\* C34: for a text message, the arm of .m.rule.contains_display_name matches
\* exactly when the body contains the recipient's display name, and the arm
\* of .m.rule.contains_user_name exactly when it contains the recipient's
\* localpart.
C34_ContentRules ==
    (push_pc = "done" /\ TextMessage(push_input.pdu))
    => /\ ArmMatches(".m.rule.contains_display_name", push_input.pdu, push_input.room)
             <=> push_input.pdu.body_has_display_name
       /\ ArmMatches(".m.rule.contains_user_name", push_input.pdu, push_input.room)
             <=> push_input.pdu.body_has_localpart

\* the sender's power level as the room's power-levels event gives it
SenderLevel(pl, sender) ==
    IF sender \in DOMAIN pl.users THEN pl.users[sender] ELSE pl.users_default

\* C35: for a text message, the arm of .m.rule.roomnotif matches exactly when
\* the body contains "@room", the room has a power-levels event and the
\* sender's level in it (the default user level for a sender not listed in
\* users) is at least notifications.room.
C35_RoomNotif ==
    (push_pc = "done" /\ TextMessage(push_input.pdu))
    => (ArmMatches(".m.rule.roomnotif", push_input.pdu, push_input.room)
          <=> /\ push_input.pdu.body_has_room
              /\ \E pl \in push_input.room.power_levels :
                    /\ pl.decodable
                    /\ SenderLevel(pl, push_input.pdu.sender) >= pl.notifications_room)

\* C36: while the worker is at the select of its loop, a destination whose
\* marker is in the in-flight table has a transaction outstanding.
C36_NoStuckReservation ==
    worker.pc = "idle"
    => \A key \in servercurrentpdus :
          IsMarker(key) => \E f \in BagToSet(futures) : PrefixOf(f.kind) = key

\* C37: a store operation deletes a key from the pending table only when the
\* key is in the in-flight table, before the operation and after it: a PDU-id
\* under a move is in one of the two tables in every store state.
C37_InsertBeforeRemove ==
    [][\A key \in servernamepduids :
          key \notin servernamepduids'
          => key \in servercurrentpdus /\ key \in servercurrentpdus']_vars

\* the worker is between the two store operations of a move of the drain
\* after a success: the key is in both tables
C37_Witness ==
    /\ worker.pc = "drain"
    /\ worker.op = 2
    /\ worker.keys[worker.i] \in servernamepduids \cap servercurrentpdus

\* the pushers a room member has stored: a member of another server has none
StoredBy(user) == IF user \in PusherUsers THEN PushersSet(user) ELSE {}

\* C38: get_pusher(u) returns only pushers stored by u, for every user it is
\* called with, also when the bytes of u are a prefix of those of another
\* user; and no key of the store is the key of two users' pushers.
C38_PusherIsolation ==
    /\ \A user \in PusherMembers :
          LET got == get_pusher(senderkey_pusher, user)
          IN  {got[i] : i \in 1..Len(got)} \subseteq StoredBy(user)
    /\ \A u1, u2 \in PusherUsers, k1, k2 \in Pushkeys :
          pusher_key(u1, k1) = pusher_key(u2, k2) => u1 = u2 /\ k1 = k2

\* the destination prefix of a key: the bytes up to the first 0xFF, included
KeyPrefix(key) == SubSeq(key, 1, FirstSep(key))

\* C39: the push entries of two distinct PDU-ids have distinct destination
\* prefixes.
C39_OwnPushDestination ==
    \A k1, k2 \in servernamepduids \cup servercurrentpdus :
        /\ ~IsMarker(k1) /\ ~IsMarker(k2)
        /\ PduOf(k1) # PduOf(k2)
        => KeyPrefix(k1) # KeyPrefix(k2)

\* C40: a set_read_marker request whose read_receipt names an event that is
\* not in the store is answered InvalidParam and leaves the user's fully-read
\* marker, private read marker and read receipts as they were.
C40_UnknownReceiptHasNoEffect ==
    [][(/\ client'.served = client.served + 1
        /\ client'.request.route = "set_read_marker"
        /\ client'.request.body.read_receipt # None
        /\ get_pdu_count(client, client'.request.body.read_receipt) = {})
       => /\ client'.response.status = "InvalidParam"
          /\ client'.fully_read = client.fully_read
          /\ client'.private_read = client.private_read
          /\ client'.read_receipts = client.read_receipts]_vars

====
